---- MODULE Spec2Model ----
(***************************************************************************)
(* Product matching and selection engine of the Pricewise services         *)
(* (services/product_matcher_service.py, services/simple_product_matcher.py)*)
(*                                                                         *)
(* Conventions of the model                                                *)
(*   - text is a TLA+ string; Len, SubSeq and \o act on it character-wise  *)
(*   - a score, weight, threshold or tie delta is an integer: signals and  *)
(*     weights are percentages (0.50 is 50), so a final score, a           *)
(*     confidence threshold and a tie delta are in units of 1/10000        *)
(*     (0.55 is 5500, 0.05 is 500)                                         *)
(*   - a volume is an integer number of 1/20000000 parts of a liter        *)
(*   - a price is an integer number of cents                               *)
(*   - arithmetic on scores is exact; the requests of the model have no    *)
(*     two scores whose difference equals the tie delta, where the         *)
(*     rounding of binary floating point could decide either way           *)
(*   - a Python dict is a TLA+ function; a key the dict lacks is not in    *)
(*     its DOMAIN; None is the empty tuple and a value v that may be None  *)
(*     is <<v>>                                                            *)
(***************************************************************************)
EXTENDS Integers, Sequences, FiniteSets, TLC

VARIABLES pc, request, lib_signals, result, response, cursor, store_matches, call_log

vars == <<pc, request, lib_signals, result, response, cursor, store_matches, call_log>>

-----------------------------------------------------------------------------
(* The texts of the model's requests. What a text function of the services *)
(* gives for one of them is computed once and kept in a table next to the  *)
(* function; for any other text the function is computed where it is used. *)

Queries == {"milk", "whole milk 1 gallon", "organic whole milk", "", " "}

ProductTitles ==
    {"H-E-B Whole Milk", "Great Value Whole Milk 1 gal", "Lucerne Whole Milk 1 gallon",
     "Good & Gather Whole Milk 64 fl oz", "Whole Milk", "Milk", "Orange Juice 128 fl oz",
     "Organic Valley Whole Milk 1 gal", "Organic Valley Whole Milk 1 Gallon",
     "Organic Valley Milk 64 fl oz", "Organic Valley Butter", "Sourdough Bread",
     "zzzzzzzzzk"}

HasDataStoreNames ==
    {"H-E-B", "Walmart", "Albertsons", "Target", "Kroger", "Unknown"}

NearbyStoreNames ==
    {"Walmart Supercenter", "Walmart", "Target", "Kroger", "Target Kroger", "Aldi", "unknown"}

ComponentTexts == {"milk", "Milk", "organic valley", "Organic Valley", "1 gallon", "64 oz"}

KnownTexts ==
    Queries \cup ProductTitles \cup HasDataStoreNames \cup NearbyStoreNames \cup ComponentTexts

-----------------------------------------------------------------------------
(* Characters and strings (Python str methods used by the services)        *)

UpperLetters == "ABCDEFGHIJKLMNOPQRSTUVWXYZ"
LowerLetters == "abcdefghijklmnopqrstuvwxyz"
DigitChars == "0123456789"

\* s[i] of a 1-based position, "" outside the string
Ch(s, i) == IF i >= 1 /\ i <= Len(s) THEN SubSeq(s, i, i) ELSE ""

\* position of character c in alphabet a, 0 when absent
IndexIn(a, c) ==
    IF \E k \in 1..Len(a) : SubSeq(a, k, k) = c
    THEN CHOOSE k \in 1..Len(a) : SubSeq(a, k, k) = c
    ELSE 0

IsDigit(c) == c # "" /\ IndexIn(DigitChars, c) > 0
IsSpace(c) == c = " " \/ c = "\n"
\* \w of the re module: letters, digits and the underscore
IsWordChar(c) ==
    c # "" /\ (IndexIn(LowerLetters, c) > 0 \/ IndexIn(UpperLetters, c) > 0
               \/ IndexIn(DigitChars, c) > 0 \/ c = "_")

LowerChar(c) ==
    LET k == IndexIn(UpperLetters, c)
    IN IF c # "" /\ k > 0 THEN SubSeq(LowerLetters, k, k) ELSE c

RECURSIVE Lowered(_)
Lowered(s) ==
    IF s = "" THEN "" ELSE LowerChar(SubSeq(s, 1, 1)) \o Lowered(Tail(s))

LowerTable == [t \in KnownTexts |-> Lowered(t)]

\* s.lower()
str_lower(s) == IF s \in DOMAIN LowerTable THEN LowerTable[s] ELSE Lowered(s)

\* sub in s
str_in(sub, s) ==
    \E i \in 0..(Len(s) - Len(sub)) : SubSeq(s, i + 1, i + Len(sub)) = sub

RECURSIVE str_lstrip(_)
str_lstrip(s) ==
    IF s # "" /\ IsSpace(SubSeq(s, 1, 1)) THEN str_lstrip(Tail(s)) ELSE s

RECURSIVE str_rstrip(_)
str_rstrip(s) ==
    IF s # "" /\ IsSpace(SubSeq(s, Len(s), Len(s)))
    THEN str_rstrip(SubSeq(s, 1, Len(s) - 1))
    ELSE s

str_strip(s) == str_rstrip(str_lstrip(s))

\* the first whitespace-delimited word of a string without leading whitespace
RECURSIVE FirstWord(_)
FirstWord(s) ==
    IF s = "" \/ IsSpace(SubSeq(s, 1, 1)) THEN ""
    ELSE SubSeq(s, 1, 1) \o FirstWord(Tail(s))

\* s.split(): the sequence of whitespace-delimited words
RECURSIVE str_split(_)
str_split(s) ==
    LET t == str_lstrip(s)
        w == FirstWord(t)
    IN IF t = "" THEN <<>>
       ELSE <<w>> \o str_split(SubSeq(t, Len(w) + 1, Len(t)))

SeqToSet(q) == {q[i] : i \in 1..Len(q)}

-----------------------------------------------------------------------------
(* Regular expressions (re.search), as far as the services' patterns go.   *)
(* A pattern is a tuple whose first element names its kind; Ends gives the *)
(* positions (0-based offsets) at which a match started in I can end.      *)

Lit(w) == <<"lit", w>>
WsStar == <<"ws*">>
WsPlus == <<"ws+">>
DigitsPlus == <<"d+">>
WordB == <<"wb">>
Opt(p) == <<"opt", p>>
Alt(ps) == <<"alt", ps>>
Cat(ps) == <<"cat", ps>>
\* (w1|w2|...) of literal words
Words(ws) == Alt([i \in 1..Len(ws) |-> Lit(ws[i])])

RECURSIVE Ends(_, _, _)
RECURSIVE EndsCat(_, _, _, _)
EndsCat(ps, k, s, I) ==
    IF k > Len(ps) \/ I = {} THEN I ELSE EndsCat(ps, k + 1, s, Ends(ps[k], s, I))

Ends(p, s, I) ==
    CASE p[1] = "lit" ->
           {i + Len(p[2]) : i \in {j \in I : j + Len(p[2]) <= Len(s)
                                              /\ SubSeq(s, j + 1, j + Len(p[2])) = p[2]}}
      [] p[1] = "ws*" ->
           {j \in 0..Len(s) : \E i \in I : i <= j /\ \A k \in (i + 1)..j : IsSpace(Ch(s, k))}
      [] p[1] = "ws+" ->
           {j \in 0..Len(s) : \E i \in I : i < j /\ \A k \in (i + 1)..j : IsSpace(Ch(s, k))}
      [] p[1] = "d+" ->
           {j \in 0..Len(s) : \E i \in I : i < j /\ \A k \in (i + 1)..j : IsDigit(Ch(s, k))}
      [] p[1] = "wb" ->
           {i \in I : IsWordChar(Ch(s, i)) # IsWordChar(Ch(s, i + 1))}
      [] p[1] = "opt" -> I \cup Ends(p[2], s, I)
      [] p[1] = "alt" -> UNION {Ends(p[2][k], s, I) : k \in 1..Len(p[2])}
      [] p[1] = "cat" -> EndsCat(p[2], 1, s, I)

\* re.search(p, s) is not None
re_search(p, s) == Ends(p, s, 0..Len(s)) # {}

-----------------------------------------------------------------------------
(* Text normalizer                                                         *)

\* the characters re.sub(r"[^a-z0-9 &%().,-]", " ", s) keeps
KeptPunctuation == " &%().,-"

\* "~", "^" and "|" stand for the non-ASCII characters U+2013, U+2014 and
\* U+2019, which are replaced by "-", "-" and "'"
NormalizeChar(c) ==
    LET l == LowerChar(c)
        a == IF l = "~" \/ l = "^" THEN "-" ELSE IF l = "|" THEN "'" ELSE l
    IN IF IndexIn(LowerLetters, a) > 0 \/ IndexIn(DigitChars, a) > 0
          \/ IndexIn(KeptPunctuation, a) > 0
       THEN a ELSE " "

RECURSIVE MapChars(_)
MapChars(s) == IF s = "" THEN "" ELSE NormalizeChar(SubSeq(s, 1, 1)) \o MapChars(Tail(s))

\* " ".join(words)
RECURSIVE JoinWords(_)
JoinWords(ws) ==
    IF ws = <<>> THEN ""
    ELSE IF Len(ws) = 1 THEN ws[1]
    ELSE ws[1] \o " " \o JoinWords(Tail(ws))

\* a variant that unifies the whitespace before it replaces the characters
NormalizedCollapsingFirst(s) == IF s = "" THEN "" ELSE MapChars(JoinWords(str_split(s)))
Normalized(s) == IF s = "" THEN "" ELSE JoinWords(str_split(MapChars(s)))

NormalizeTable == [t \in KnownTexts |-> Normalized(t)]

normalize_text(s) == IF s \in DOMAIN NormalizeTable THEN NormalizeTable[s] ELSE Normalized(s)

-----------------------------------------------------------------------------
(* Optional values: None is the empty tuple, a present value v is <<v>>    *)

None == <<>>
Some(v) == <<v>>
Val(o) == o[1]

-----------------------------------------------------------------------------
(* Unit parser                                                             *)

\* a parsed number is kept in tenths (the model's texts have numbers of at
\* most one fractional digit), a volume in tenths of these factors: the liters
\* of one unit, counted in parts of 1/2000000 liter
NumberScale == 10
GallonFactor == 7570820
OunceFactor == 59147
LiterFactor == 2000000
MilliliterFactor == 2000
QuartFactor == 1892706
PintFactor == 946352

\* (\d+(?:\.\d+)?)
NumberPattern == Cat(<<DigitsPlus, Opt(Cat(<<Lit("."), DigitsPlus>>))>>)

\* the patterns of parse_volume_to_liters in the order they are tried:
\* <<what follows the number, factor>>
VolumePatterns ==
    << <<Cat(<<WsStar, Words(<<"gal", "gallon", "gallons">>), WordB>>), GallonFactor>>,
       <<Cat(<<WsStar,
               Alt(<<Cat(<<Lit("fl"), WsStar, Lit("oz")>>),
                     Cat(<<Lit("fluid"), WsStar, Lit("oz")>>), Lit("oz")>>),
               WordB>>), OunceFactor>>,
       <<Cat(<<WsStar, Words(<<"l", "litre", "liter", "liters">>), WordB>>), LiterFactor>>,
       <<Cat(<<WsStar, Words(<<"ml", "milliliter", "millilitre", "milliliters">>), WordB>>),
         MilliliterFactor>>,
       <<Cat(<<WsStar, Words(<<"qt", "quart", "quarts">>), WordB>>), QuartFactor>>,
       <<Cat(<<WsStar, Words(<<"pt", "pint", "pints">>), WordB>>), PintFactor>>,
       <<Cat(<<Words(<<"gal", "gallon", "gallons">>), WordB>>), GallonFactor>> >>

RECURSIVE DigitsValue(_)
DigitsValue(d) ==
    IF d = "" THEN 0
    ELSE 10 * DigitsValue(SubSeq(d, 1, Len(d) - 1)) + (IndexIn(DigitChars, SubSeq(d, Len(d), Len(d))) - 1)

\* float(text) of a text matched by NumberPattern, in tenths (digits after the
\* first fractional digit are dropped)
float_of(text) ==
    LET dot == IF str_in(".", text)
               THEN CHOOSE k \in 1..Len(text) : SubSeq(text, k, k) = "."
               ELSE Len(text) + 1
        whole == SubSeq(text, 1, dot - 1)
        frac == IF dot < Len(text) THEN SubSeq(text, dot + 1, dot + 1) ELSE "0"
    IN NumberScale * DigitsValue(whole) + DigitsValue(frac)

\* m = re.search(number + rest, t): None, or group(1) of the leftmost match
SearchNumber(rest, t) ==
    LET full == Cat(<<NumberPattern, rest>>)
        starts == {i \in 0..Len(t) : Ends(full, t, {i}) # {}}
    IN IF starts = {} THEN None
       ELSE LET i == CHOOSE a \in starts : \A b \in starts : a <= b
                numEnds == {j \in Ends(NumberPattern, t, {i}) : Ends(rest, t, {j}) # {}}
                j == CHOOSE a \in numEnds : \A b \in numEnds : a >= b
            IN Some(SubSeq(t, i + 1, j))

RECURSIVE ParseVolumeFrom(_, _)
ParseVolumeFrom(k, t) ==
    IF k > Len(VolumePatterns) THEN None
    ELSE LET m == SearchNumber(VolumePatterns[k][1], t)
         IN IF m # None
            THEN Some(float_of(Val(m)) * VolumePatterns[k][2])
            ELSE ParseVolumeFrom(k + 1, t)

\* a variant that uses the last of the patterns that match
ParsedVolumeOfLastPattern(title) ==
    LET t == str_lower(title)
        matching == {k \in 1..Len(VolumePatterns) :
                        SearchNumber(VolumePatterns[k][1], t) # None}
        last == CHOOSE k \in matching : \A j \in matching : j <= k
    IN IF matching = {} THEN None
       ELSE Some(float_of(Val(SearchNumber(VolumePatterns[last][1], t)))
                 * VolumePatterns[last][2])
ParsedVolume(title) == ParseVolumeFrom(1, str_lower(title))

VolumeTable == [t \in KnownTexts |-> ParsedVolume(t)]

\* None, or the liters in volume units
parse_volume_to_liters(title) ==
    IF title \in DOMAIN VolumeTable THEN VolumeTable[title] ELSE ParsedVolume(title)

\* quantity_text is None or a text
parse_volume_to_liters_from_quantity_string(quantity_text) ==
    IF quantity_text = None \/ Val(quantity_text) = "" THEN None
    ELSE parse_volume_to_liters(Val(quantity_text))

-----------------------------------------------------------------------------
(* Python dicts and lists                                                  *)

\* d.get(k, default)
Get(d, k, default) == IF k \in DOMAIN d THEN d[k] ELSE default
\* {}
EmptyDict == <<>>

\* [x for x in q if Test(x)] is SelectSeq(q, Test)

\* isinstance(v, (int, float)) of a JSON value: a number, not null
IsNumber(v) == v # None

-----------------------------------------------------------------------------
(* Priority selector                                                       *)

\* tolerance: float = 0.15, as the fraction ToleranceNum / ToleranceDen
ToleranceNum == 3
ToleranceDen == 20

Abs(x) == IF x < 0 THEN -x ELSE x

\* token is None or a text
title_contains_token(title_lower, token) ==
    IF token = None \/ Val(token) = "" THEN FALSE
    ELSE str_in(str_lower(Val(token)), title_lower)

\* diff <= tolerance * desired_liters, on integers
WithinTolerance(liters_in_title, desired_liters) ==
    Abs(liters_in_title - desired_liters) <= (ToleranceNum * desired_liters) \div ToleranceDen

\* the test of title_matches_quantity_liters on the liters parsed from the title
LitersMatch(liters_in_title, desired_liters) ==
    IF liters_in_title = None THEN FALSE
    ELSE WithinTolerance(Val(liters_in_title), Val(desired_liters))

title_matches_quantity_liters(title, desired_liters) ==
    IF desired_liters = None THEN FALSE
    ELSE LitersMatch(parse_volume_to_liters(title), desired_liters)

\* min(priced, key=price): the first product of the least price
pick_lowest_price(products) ==
    LET IsPriced(p) == IsNumber(Get(p, "extractedPrice", None))
        priced == SelectSeq(products, IsPriced)
    IN IF priced = <<>> THEN None
       ELSE LET i == CHOOSE a \in 1..Len(priced) :
                        /\ \A b \in 1..Len(priced) :
                              Val(priced[a].extractedPrice) <= Val(priced[b].extractedPrice)
                        /\ \A b \in 1..(a - 1) :
                              Val(priced[b].extractedPrice) > Val(priced[a].extractedPrice)
            IN Some(priced[i])

\* a variant with no case for a brand and a quantity without an item
PriorityCaseOfTableRows(item, brand, quantity_liters) ==
    LET has_item == item # None /\ Val(item) # ""
        has_brand == brand # None /\ Val(brand) # ""
        has_qty == quantity_liters # None
    IN CASE has_item /\ has_brand /\ has_qty -> 1
         [] has_item /\ has_brand /\ ~has_qty -> 2
         [] has_item /\ has_qty /\ ~has_brand -> 3
         [] OTHER -> IF has_brand /\ has_qty THEN 0
                     ELSE IF has_item \/ has_brand \/ has_qty THEN 4 ELSE 0

\* which of the four cases applies; 0 when no component is present
PriorityCase(item, brand, quantity_liters) ==
    LET has_item == item # None /\ Val(item) # ""
        has_brand == brand # None /\ Val(brand) # ""
        has_qty == quantity_liters # None
    IN CASE has_item /\ has_brand /\ has_qty -> 1
         [] has_item /\ has_brand /\ ~has_qty -> 2
         [] has_item /\ has_qty /\ ~has_brand -> 3
         [] OTHER -> IF has_item \/ has_brand \/ has_qty THEN 4 ELSE 0

\* the number of filters the case tries before the cheapest-overall fallback
TierCount(case) == CASE case = 1 -> 4 [] case = 2 -> 2 [] case = 3 -> 2
                     [] case = 4 -> 1 [] OTHER -> 0

\* a variant whose fourth case has no filter of its own
TierTestWithoutSingleTier(case, k, I, B, Q) ==
    CASE case = 1 /\ k = 1 -> I /\ B /\ Q
      [] case = 1 /\ k = 2 -> (I \/ B) /\ Q
      [] case = 1 /\ k = 3 -> I /\ (B \/ Q)
      [] case = 1 /\ k = 4 -> I \/ B \/ Q
      [] case = 2 /\ k = 1 -> I /\ B
      [] case = 2 /\ k = 2 -> I \/ B
      [] case = 3 /\ k = 1 -> I /\ Q
      [] case = 3 /\ k = 2 -> I \/ Q
      [] OTHER -> FALSE
\* the condition of filter k of the case, given whether the title has the
\* item (I), has the brand (B) and matches the quantity (Q)
TierTest(case, k, I, B, Q) ==
    CASE case = 1 /\ k = 1 -> I /\ B /\ Q
      [] case = 1 /\ k = 2 -> (I \/ B) /\ Q
      [] case = 1 /\ k = 3 -> I /\ (B \/ Q)
      [] case = 1 /\ k = 4 -> I \/ B \/ Q
      [] case = 2 /\ k = 1 -> I /\ B
      [] case = 2 /\ k = 2 -> I \/ B
      [] case = 3 /\ k = 1 -> I /\ Q
      [] case = 3 /\ k = 2 -> I \/ Q
      [] case = 4 /\ k = 1 -> I \/ B \/ Q
      [] OTHER -> FALSE

\* the condition of filter k of the case, on product p
TierCondition(case, k, p, item, brand, quantity_liters) ==
    TierTest(case, k,
             title_contains_token(str_lower(Get(p, "title", "")), item),
             title_contains_token(str_lower(Get(p, "title", "")), brand),
             title_matches_quantity_liters(Get(p, "title", ""), quantity_liters))

\* filt(cond_fn) for filter k of the case
TierFilter(case, k, store_products, item, brand, quantity_liters) ==
    LET Test(p) == TierCondition(case, k, p, item, brand, quantity_liters)
    IN SelectSeq(store_products, Test)

\* a variant without the cheapest-overall fallback
FirstPickOfFilters(pick, store_products) ==
    LET hit == {k \in DOMAIN pick : pick[k] # None}
    IN IF hit # {} THEN pick[CHOOSE k \in hit : \A j \in hit : k <= j]
       ELSE None

\* the pick of the first filter that has one, else the cheapest overall
FirstPick(pick, store_products) ==
    LET hit == {k \in DOMAIN pick : pick[k] # None}
    IN IF hit # {} THEN pick[CHOOSE k \in hit : \A j \in hit : k <= j]
       ELSE pick_lowest_price(store_products)

\* the picks of the filters of the case, in the order they are tried
TierPicks(case, store_products, item, brand, quantity_liters) ==
    [k \in 1..TierCount(case) |->
        pick_lowest_price(TierFilter(case, k, store_products, item, brand,
                                     quantity_liters))]

\* the product selected, or None
select_by_priority_conditions(store_products, item, brand, quantity_liters) ==
    IF PriorityCase(item, brand, quantity_liters) = 0 THEN None
    ELSE FirstPick(TierPicks(PriorityCase(item, brand, quantity_liters), store_products,
                             item, brand, quantity_liters),
                   store_products)

-----------------------------------------------------------------------------
(* Query classifier                                                        *)

\* a\s+b
Phrase(a, b) == Cat(<<Lit(a), WsPlus, Lit(b)>>)
\* \b(...)\b
Bounded(alternatives) == Cat(<<WordB, Alt(alternatives), WordB>>)
\* \b\d+\s*(...)\b
Counted(alternatives) == Cat(<<WordB, DigitsPlus, WsStar, Alt(alternatives), WordB>>)

brand_indicators ==
    << Bounded(<<Lit("organic"), Lit("premium"), Lit("luxury"), Lit("premium"),
                 Phrase("name", "brand"), Phrase("store", "brand"), Lit("generic")>>),
       Bounded(<<Lit("ariel"), Lit("tide"), Lit("gain"), Lit("downy"), Lit("persil"),
                 Cat(<<Lit("arm"), WsStar, Opt(Lit("&")), WsStar, Lit("hammer")>>),
                 Lit("all"), Lit("cheer")>>),
       Bounded(<<Phrase("great", "value"), Lit("kirkland"), Phrase("members", "mark"),
                 Phrase("store", "brand")>>) >>

quantity_indicators ==
    << Counted(<<Lit("gallon"), Lit("gal"), Lit("liter"), Lit("l"), Lit("oz"),
                 Lit("ounce"), Lit("pound"), Lit("lb"), Lit("kg"), Lit("gram"), Lit("g"),
                 Lit("ml"), Cat(<<Lit("fl"), WsStar, Lit("oz")>>)>>),
       Bounded(<<Lit("half"), Lit("quarter"), Lit("double"), Lit("triple"), Lit("single"),
                 Phrase("family", "size"), Lit("bulk"), Lit("jumbo"), Lit("mini")>>),
       Counted(<<Lit("pack"), Lit("count"), Lit("ct"), Lit("piece"), Lit("pc")>>) >>

quality_indicators ==
    << Bounded(<<Lit("whole"), Lit("2%"), Lit("1%"), Lit("skim"), Phrase("low", "fat"),
                 Phrase("non", "fat"), Phrase("fat", "free"), Phrase("lactose", "free")>>),
       Bounded(<<Lit("organic"), Lit("natural"), Lit("premium"), Lit("ultra"),
                 Lit("concentrated"), Phrase("heavy", "duty")>>),
       Bounded(<<Lit("original"), Lit("classic"), Lit("traditional"), Lit("new"),
                 Lit("improved"), Lit("advanced")>>) >>

variant_indicators ==
    << Bounded(<<Lit("powder"), Lit("liquid"), Lit("gel"), Lit("pods"), Lit("capsules"),
                 Lit("tablets"), Lit("bars")>>),
       Bounded(<<Lit("unscented"), Phrase("fragrance", "free"), Lit("scented"),
                 Lit("fresh"), Lit("clean")>>),
       Bounded(<<Phrase("color", "safe"), Phrase("stain", "removal"), Lit("whitening"),
                 Lit("brightening")>>) >>

specific_patterns ==
    brand_indicators \o quantity_indicators \o quality_indicators \o variant_indicators

StopWords == {"the", "and", "or", "for", "with", "in", "on", "at"}

basic_categories ==
    {"milk", "cheese", "butter", "yogurt", "cream",
     "bread", "cereal", "rice", "pasta", "flour",
     "chicken", "beef", "fish", "eggs", "meat",
     "water", "juice", "soda", "coffee", "tea",
     "detergent", "soap", "shampoo", "toothpaste",
     "chips", "cookies", "crackers", "nuts",
     "apples", "bananas", "oranges", "fruits",
     "carrots", "lettuce", "tomatoes", "vegetables"}

descriptive_words ==
    {"organic", "premium", "fresh", "natural", "original", "ultra", "concentrated",
     "heavy", "light", "free", "safe"}

\* a variant that looks for a number before it looks for a basic category
GeneralRuleNumberFirst(query) ==
    LET query_lower == str_strip(str_lower(query))
        query_words == str_split(query_lower)
        IsMeaningful(w) == Len(w) > 2 /\ w \notin StopWords
        meaningful_words == SelectSeq(query_words, IsMeaningful)
        IsDescriptive(w) == w \in descriptive_words
    IN CASE Len(query_words) < 1 -> 1
         [] \E k \in 1..Len(specific_patterns) : re_search(specific_patterns[k], query_lower) -> 2
         [] Len(query_words) = 1 -> 3
         [] Len(meaningful_words) <= 2 -> 4
         [] re_search(DigitsPlus, query_lower) -> 6
         [] (\E term \in basic_categories : str_in(term, query_lower))
              /\ Len(query_words) <= 3 -> 5
         [] Len(SelectSeq(query_words, IsDescriptive)) > 0 -> 7
         [] OTHER -> 8

\* the number of the rule that decides the query, 1..8 in the order of the code
GeneralRule(query) ==
    LET query_lower == str_strip(str_lower(query))
        query_words == str_split(query_lower)
        IsMeaningful(w) == Len(w) > 2 /\ w \notin StopWords
        meaningful_words == SelectSeq(query_words, IsMeaningful)
        IsDescriptive(w) == w \in descriptive_words
    IN CASE Len(query_words) < 1 -> 1
         [] \E k \in 1..Len(specific_patterns) : re_search(specific_patterns[k], query_lower) -> 2
         [] Len(query_words) = 1 -> 3
         [] Len(meaningful_words) <= 2 -> 4
         [] (\E term \in basic_categories : str_in(term, query_lower))
              /\ Len(query_words) <= 3 -> 5
         [] re_search(DigitsPlus, query_lower) -> 6
         [] Len(SelectSeq(query_words, IsDescriptive)) > 0 -> 7
         [] OTHER -> 8

\* what the deciding rule returns
RuleVerdict(rule, query) ==
    CASE rule \in {1, 3, 4, 5} -> TRUE
      [] rule \in {2, 6, 7} -> FALSE
      [] OTHER -> Len(str_split(str_strip(str_lower(query)))) <= 3

Classified(query) == RuleVerdict(GeneralRule(query), query)

GeneralTable == [q \in Queries |-> Classified(q)]

is_general_query(query) ==
    IF query \in DOMAIN GeneralTable THEN GeneralTable[query] ELSE Classified(query)

-----------------------------------------------------------------------------
(* Calls that may raise: a call returns a value or raises an exception     *)

Return(v) == [ok |-> TRUE, value |-> v]
Raise(e) == [ok |-> FALSE, error |-> e]

-----------------------------------------------------------------------------
(* General-query selector                                                  *)

category_synonyms ==
    [w \in {"detergent", "milk", "bread", "chicken", "cheese", "eggs", "cooking oil", "oil"} |->
        CASE w = "detergent" -> <<"laundry", "washing", "cleaning", "soap">>
          [] w = "milk" -> <<"dairy", "cream", "lactose">>
          [] w = "bread" -> <<"loaf", "baked", "grain">>
          [] w = "chicken" -> <<"poultry", "meat", "protein">>
          [] w = "cheese" -> <<"dairy", "dairy product">>
          [] w = "eggs" -> <<"poultry", "protein", "shell">>
          [] w = "cooking oil" -> <<"oil", "vegetable oil", "canola", "olive", "sunflower",
                                    "avocado", "grapeseed">>
          [] w = "oil" -> <<"cooking", "vegetable", "canola", "olive", "sunflower",
                            "avocado", "grapeseed", "algae">>]

relevance_brand_indicators ==
    {"ariel", "tide", "gain", "downy", "persil", "arm & hammer", "all", "cheer"}

size_indicators == {"gallon", "gal", "liter", "oz", "pound", "lb", "kg", "gram"}

\* the price a product without the extractedPrice key is sorted by: 999, in cents
MissingPriceKey == 99900
\* the price logged, and reported in all_candidates, for such a product: 0
MissingPriceShown == 0

\* the score find_cheapest_relevant_product gives a product
RelevanceOf(query, product_title) ==
    LET query_lower == str_strip(str_lower(query))
        query_words == SeqToSet(str_split(query_lower))
        title == str_lower(product_title)
        title_list == str_split(title)
        exact_matches == query_words \cap SeqToSet(title_list)
        partial_hits == {h \in query_words \X (1..Len(title_list)) :
                            /\ Len(h[1]) > 2
                            /\ (str_in(h[1], title_list[h[2]]) \/ str_in(title_list[h[2]], h[1]))}
        synonym_hits == UNION {{<<w, k>> : k \in {j \in 1..Len(category_synonyms[w]) :
                                                     str_in(category_synonyms[w][j], title)}} :
                               w \in query_words \cap DOMAIN category_synonyms}
        has_brand_in_title == \E b \in relevance_brand_indicators : str_in(b, title)
        has_brand_in_query == \E b \in relevance_brand_indicators : str_in(b, query_lower)
        has_size_in_query == \E z \in size_indicators : str_in(z, query_lower)
        has_size_in_title == \E z \in size_indicators : str_in(z, title)
    IN 5 * Cardinality(exact_matches)
       + 5 * Cardinality(partial_hits)
       + 3 * Cardinality(synonym_hits)
       - (IF has_brand_in_title /\ ~has_brand_in_query THEN 2 ELSE 0)
       + (IF ~has_size_in_query /\ ~has_size_in_title THEN 1 ELSE 0)

RelevanceTable == [k \in Queries \X (ProductTitles \cup {""}) |-> RelevanceOf(k[1], k[2])]

relevance_score(query, product) ==
    LET product_title == Get(product, "title", "")
    IN IF <<query, product_title>> \in DOMAIN RelevanceTable
       THEN RelevanceTable[<<query, product_title>>]
       ELSE RelevanceOf(query, product_title)

\* product with product['relevance_score'] = score
Stamped(product, score) ==
    [k \in DOMAIN product \cup {"relevance_score"} |->
        IF k = "relevance_score" THEN score ELSE product[k]]

\* the products with their scores, in the order of the input
ScoredProducts(query, products) ==
    [i \in 1..Len(products) |-> <<products[i], relevance_score(query, products[i])>>]

\* a variant of the loop that sets relevance_score on every product
StampedOnEvery(query, products) ==
    [i \in 1..Len(products) |-> Stamped(products[i], relevance_score(query, products[i]))]

\* the caller's products after the loop of find_cheapest_relevant_product:
\* product['relevance_score'] = score is set on the dicts of the caller, on
\* those of a positive score
StampedInPlace(query, products) ==
    [i \in 1..Len(products) |->
        IF relevance_score(query, products[i]) > 0
        THEN Stamped(products[i], relevance_score(query, products[i]))
        ELSE products[i]]

\* relevant_products of the scored products: those of a positive score, stamped
RelevantOf(scored_products) ==
    LET Positive(ps) == ps[2] > 0
        kept == SelectSeq(scored_products, Positive)
    IN [i \in 1..Len(kept) |-> Stamped(kept[i][1], kept[i][2])]

-----------------------------------------------------------------------------
(* The orders the selectors sort and take minima by. A price per liter is  *)
(* the fraction <<price, liters>>.                                         *)

\* n1/d1 < n2/d2 for n1, n2 >= 0 and d1, d2 > 0, without forming the products
RECURSIVE FracLess(_, _, _, _)
FracLess(n1, d1, n2, d2) ==
    IF n1 \div d1 # n2 \div d2 THEN n1 \div d1 < n2 \div d2
    ELSE IF n2 % d2 = 0 THEN FALSE
    ELSE IF n1 % d1 = 0 THEN TRUE
    ELSE FracLess(d2, n2 % d2, d1, n1 % d1)

\* a variant of the sort key that puts relevance before price
MoreRelevantThenCheaper(x, y) ==
    LET px == IF "extractedPrice" \in DOMAIN x THEN Val(x.extractedPrice) ELSE MissingPriceKey
        py == IF "extractedPrice" \in DOMAIN y THEN Val(y.extractedPrice) ELSE MissingPriceKey
    IN x.relevance_score > y.relevance_score \/ (x.relevance_score = y.relevance_score /\ px < py)

\* the sort key (float(x.get("extractedPrice", 999)), -relevance_score), compared
CheaperThenMoreRelevant(x, y) ==
    LET px == IF "extractedPrice" \in DOMAIN x THEN Val(x.extractedPrice) ELSE MissingPriceKey
        py == IF "extractedPrice" \in DOMAIN y THEN Val(y.extractedPrice) ELSE MissingPriceKey
    IN px < py \/ (px = py /\ x.relevance_score > y.relevance_score)

\* a variant of the sort order: ascending score
LowerScore(x, y) == x.score < y.score

\* feats.sort(key=score, reverse=True): x goes before y
HigherScore(x, y) == x.score > y.score

\* a variant of the price-per-liter order: the dearer first
HigherPricePerLiter(x, y) ==
    FracLess(Val(y.price_per_liter)[1], Val(y.price_per_liter)[2],
             Val(x.price_per_liter)[1], Val(x.price_per_liter)[2])

\* min(with_ppl, key=price_per_liter): x is less than y
LowerPricePerLiter(x, y) ==
    FracLess(Val(x.price_per_liter)[1], Val(x.price_per_liter)[2],
             Val(y.price_per_liter)[1], Val(y.price_per_liter)[2])

\* a variant of the price order: the dearer first
HigherPrice(x, y) == Val(x.price) > Val(y.price)

\* min(candidates_with_price, key=price): x is less than y
LowerPrice(x, y) == Val(x.price) < Val(y.price)

\* x goes before y in the order of the name
Before(order, x, y) ==
    CASE order = "price_then_relevance" -> CheaperThenMoreRelevant(x, y)
      [] order = "score" -> HigherScore(x, y)
      [] order = "price_per_liter" -> LowerPricePerLiter(x, y)
      [] order = "price" -> LowerPrice(x, y)

\* q.sort(key=...): a stable sort
RECURSIVE InsertStable(_, _, _)
InsertStable(order, x, sorted) ==
    IF sorted = <<>> THEN <<x>>
    ELSE IF Before(order, x, sorted[1]) THEN <<x>> \o sorted
    ELSE <<sorted[1]>> \o InsertStable(order, x, Tail(sorted))

RECURSIVE SortStable(_, _)
SortStable(order, q) ==
    IF q = <<>> THEN <<>>
    ELSE InsertStable(order, q[Len(q)], SortStable(order, SubSeq(q, 1, Len(q) - 1)))

\* min(q, key=...): the first element no other element goes before
MinFirst(order, q) ==
    q[CHOOSE a \in 1..Len(q) :
        /\ \A b \in 1..Len(q) : ~Before(order, q[b], q[a])
        /\ \A b \in 1..(a - 1) : Before(order, q[a], q[b])]

\* the rest of find_cheapest_relevant_product, given relevant_products
CheapestOf(relevant_products) ==
    IF relevant_products = <<>> THEN Return(None)
    ELSE IF \E i \in 1..Len(relevant_products) :
                Get(relevant_products[i], "extractedPrice", Some(MissingPriceKey)) = None
    THEN Raise("TypeError")
    ELSE Return(Some(SortStable("price_then_relevance", relevant_products)[1]))

\* Return(None), Return(Some(product)), or TypeError: float(None) of a null price
find_cheapest_relevant_product(query, products) ==
    CheapestOf(RelevantOf(ScoredProducts(query, products)))

-----------------------------------------------------------------------------
(* Similarity features and weighted scorer                                 *)
(* The fuzzy ratios, the encoder's cosine and the TF-IDF cosine come from  *)
(* libraries; what they return for the request's query and the i-th        *)
(* candidate is signals[i], a record of percentages.                       *)

\* a price per liter is the fraction <<price, liters>>
compute_price_per_liter(price, liters) ==
    IF liters = None \/ Val(liters) = 0 THEN None
    ELSE Some(<<Val(price), Val(liters)>>)

\* the features, given the normalized title, the price and the liters
Features(candidate, signal, title, price, liters, brand) ==
    [candidate |-> candidate,
     title_norm |-> title,
     token_set |-> signal.token_set,
     partial |-> signal.partial,
     embed |-> signal.embed,
     price |-> price,
     liters |-> liters,
     price_per_liter |-> IF price # None THEN compute_price_per_liter(price, liters)
                         ELSE None,
     brand_match |-> IF brand # "" /\ str_in(str_lower(brand), title) THEN 100 ELSE 0]

compute_features_for_candidate(query, candidate, signal) ==
    Features(candidate, signal,
             normalize_text(Get(candidate, "title", "")),
             Get(candidate, "extractedPrice", None),
             parse_volume_to_liters(Get(candidate, "title", "")),
             Get(candidate, "source", ""))

\* a variant of normalize_component that does not cap at 1.0
normalize_component_uncapped(x) == IF x < 0 THEN 0 ELSE x

\* max(0.0, min(1.0, x)), in percent
normalize_component(x) == IF x < 0 THEN 0 ELSE IF x > 100 THEN 100 ELSE x

DefaultWeights == [token_set |-> 50, embed |-> 30, partial |-> 15, brand |-> 5]

compute_final_score(feat, weights) ==
    Get(weights, "token_set", 50) * normalize_component(feat.token_set)
    + Get(weights, "embed", 30) * normalize_component(feat.embed)
    + Get(weights, "partial", 15) * normalize_component(feat.partial)
    + Get(weights, "brand", 5) * normalize_component(feat.brand_match)

\* feat with feat["score"] = score
WithScore(feat, score) ==
    [k \in DOMAIN feat \cup {"score"} |-> IF k = "score" THEN score ELSE feat[k]]

-----------------------------------------------------------------------------
(* Tie-breaker and selection                                               *)

\* a variant of near_top that keeps every candidate
NearTopOfAll(feats, tie_delta) == feats

\* near_top of the sorted feats
NearTop(feats, tie_delta) ==
    LET top_score == feats[1].score
        IsNear(f) == (top_score - f.score) <= tie_delta
    IN SelectSeq(feats, IsNear)

\* <<chosen, reason>> of a non-empty near_top
BreakTie(near_top) ==
    LET HasPpl(f) == f.price_per_liter # None
        HasPrice(f) == f.price # None
        with_ppl == SelectSeq(near_top, HasPpl)
        candidates_with_price == SelectSeq(near_top, HasPrice)
    IN IF Len(near_top) > 1
       THEN IF with_ppl # <<>>
            THEN <<MinFirst("price_per_liter", with_ppl), "tie_broken_by_price_per_liter">>
            ELSE IF candidates_with_price # <<>>
                 THEN <<MinFirst("price", candidates_with_price), "tie_broken_by_abs_price">>
                 ELSE <<near_top[1], "tie_kept_top">>
       ELSE <<near_top[1], "top_single">>

\* the result for the chosen feature and the reason it was chosen for
Selection(feats, chosen, reason, conf_threshold) ==
    [selected |-> Some(chosen.candidate),
     score |-> chosen.score,
     confidence_ok |-> ~(chosen.score < conf_threshold),
     reason |-> reason,
     all_candidates |-> feats]

\* the part of select_best_product after near_top is collected
SelectNear(feats, near_top, conf_threshold) ==
    IF near_top = <<>> THEN Raise("IndexError")
    ELSE Return(Selection(feats, BreakTie(near_top)[1], BreakTie(near_top)[2],
                          conf_threshold))

\* the part of select_best_product after the sort
SelectSorted(feats, conf_threshold, tie_delta) ==
    IF feats = <<>> THEN Return([selected |-> None, reason |-> "no_candidates"])
    ELSE SelectNear(feats, NearTop(feats, tie_delta), conf_threshold)

\* the part of select_best_product after the scores are set, common to both
\* services
SelectScored(scored, conf_threshold, tie_delta) ==
    SelectSorted(SortStable("score", scored), conf_threshold, tie_delta)

\* the score of the general-query selection: 0.95
GeneralScore == 9500

\* the result of the general-query branch, given what
\* find_cheapest_relevant_product did
GeneralSelection(cheapest_match) ==
    IF ~cheapest_match.ok THEN cheapest_match
    ELSE IF cheapest_match.value # None
    THEN Return([selected |-> cheapest_match.value,
                 score |-> GeneralScore,
                 confidence_ok |-> TRUE,
                 reason |-> "general_query_cheapest",
                 all_candidates |->
                    <<[candidate |-> Val(cheapest_match.value),
                       score |-> GeneralScore,
                       price |-> Get(Val(cheapest_match.value), "extractedPrice",
                                     Some(MissingPriceShown))]>>])
    ELSE Return([selected |-> None, reason |-> "no_relevant_products_for_general_query"])

\* feat with feat["score"] = compute_final_score(feat, weights)
Scored(feat, weights) == WithScore(feat, compute_final_score(feat, weights))

\* weights, or the default of the service when weights is None
WeightsOr(weights, default) == IF weights = None THEN default ELSE Val(weights)

\* product_matcher_service.select_best_product; weights is None or a dict
select_best_product(query, hasdata_results, signals, weights, conf_threshold, tie_delta) ==
    IF is_general_query(query)
    THEN GeneralSelection(find_cheapest_relevant_product(query, hasdata_results))
    ELSE SelectScored([i \in 1..Len(hasdata_results) |->
                          Scored(compute_features_for_candidate(query, hasdata_results[i],
                                                                signals[i]),
                                 WeightsOr(weights, DefaultWeights))],
                      conf_threshold, tie_delta)

\* hasdata_results of the caller after select_best_product: the scored path
\* assigns to its own feature dicts only, the general path goes through
\* find_cheapest_relevant_product
ProductsAfterSelect(query, hasdata_results) ==
    IF is_general_query(query) THEN StampedInPlace(query, hasdata_results)
    ELSE hasdata_results

-----------------------------------------------------------------------------
(* The simplified service (simple_product_matcher.py)                      *)

SimpleDefaultWeights == [token_set |-> 50, partial |-> 25, brand |-> 15]
\* the weight of the TF-IDF cosine: 0.10
TfidfWeight == 10

simple_compute_final_score(feat, weights) ==
    Get(weights, "token_set", 50) * normalize_component(feat.token_set)
    + Get(weights, "partial", 25) * normalize_component(feat.partial)
    + Get(weights, "brand", 15) * normalize_component(feat.brand_match)

\* feat with feat["score"] = compute_final_score(feat, weights) + 0.10 * tfidf
SimpleScored(feat, weights, tfidf) ==
    WithScore(feat, simple_compute_final_score(feat, weights)
                    + TfidfWeight * normalize_component(tfidf))

simple_select_best_product(query, hasdata_results, signals, weights, conf_threshold, tie_delta) ==
    SelectScored([i \in 1..Len(hasdata_results) |->
                     SimpleScored(compute_features_for_candidate(query, hasdata_results[i],
                                                                 signals[i]),
                                  WeightsOr(weights, SimpleDefaultWeights),
                                  signals[i].embed)],
                 conf_threshold, tie_delta)

-----------------------------------------------------------------------------
(* POST /match-products                                                    *)

HTTPException(status_code, detail) ==
    [type |-> "HTTPException", status_code |-> status_code, detail |-> detail]
KeyError(key) == [type |-> "KeyError", status_code |-> 0, detail |-> key]
\* an exception raised by a call, as the handler sees it
Raised(outcome) == [type |-> outcome.error, status_code |-> 0, detail |-> ""]

\* the request fails the validation, so that select_best_product is not called
Rejected(req) == str_strip(req.query) = "" \/ req.hasdata_results = <<>>

\* the body of the try block of match_products, given the outcome of
\* select_best_product: Return(response fields) or Raise(exception)
MatchProductsTry(req, selection) ==
    IF str_strip(req.query) = ""
    THEN Raise(HTTPException(400, "Query cannot be empty"))
    ELSE IF req.hasdata_results = <<>>
    THEN Raise(HTTPException(400, "HasData results cannot be empty"))
    ELSE IF ~selection.ok THEN Raise(Raised(selection))
    ELSE LET r == selection.value
         IN IF r.selected # None /\ "title" \notin DOMAIN Val(r.selected)
            THEN Raise(KeyError("title"))
            ELSE IF "score" \notin DOMAIN r THEN Raise(KeyError("score"))
            ELSE Return([selected_product |-> r.selected,
                         score |-> r.score,
                         confidence_ok |-> r.confidence_ok,
                         reason |-> r.reason,
                         all_candidates |-> r.all_candidates])

\* try: ... except Exception as e: raise HTTPException(status_code=500, ...)
\* and the response the framework sends for the handler's return or raise
MatchProductsResponse(req, selection) ==
    LET tried == MatchProductsTry(req, selection)
    IN IF tried.ok THEN [status_code |-> 200, body |-> tried.value]
       ELSE [status_code |-> 500, error |-> tried.error]

-----------------------------------------------------------------------------
(* Component extractor                                                     *)
(* A value decoded from JSON is a record of its Python type and its value: *)
(* a dict is a function of its keys, a list a tuple. What the remote call  *)
(* comes to is a record remote: whether OPENAI_API_KEY is set, what        *)
(* urlopen and read do ("ok" or the exception raised) and what json.loads  *)
(* makes of the response body.                                             *)

JsonNone == [type |-> "NoneType"]
JsonStr(s) == [type |-> "str", str |-> s]
JsonInt(n) == [type |-> "int", int |-> n]
JsonList(l) == [type |-> "list", list |-> l]
JsonDict(d) == [type |-> "dict", dict |-> d]

\* bool(x) of a decoded value
JsonTruthy(x) ==
    CASE x.type = "NoneType" -> FALSE
      [] x.type = "str" -> x.str # ""
      [] x.type = "int" -> x.int # 0
      [] x.type = "list" -> Len(x.list) > 0
      [] x.type = "dict" -> DOMAIN x.dict # {}

\* d.get(key, default)
json_get(d, key, default) ==
    IF d.type # "dict" THEN Raise("AttributeError")
    ELSE Return(IF key \in DOMAIN d.dict THEN d.dict[key] ELSE default)

\* x[0]
json_first(x) ==
    CASE x.type = "list" ->
            IF Len(x.list) > 0 THEN Return(x.list[1]) ELSE Raise("IndexError")
      [] x.type = "str" ->
            IF x.str # "" THEN Return(JsonStr(Ch(x.str, 1)))
            ELSE Raise("IndexError")
      [] x.type = "dict" -> Raise("KeyError")
      [] OTHER -> Raise("TypeError")

\* payload.get("choices", [{}])[0].get("message", {}).get("content", "")
MessageContent(payload) ==
    LET choices == json_get(payload, "choices",
                            JsonList(<<JsonDict(EmptyDict)>>))
    IN IF ~choices.ok THEN choices
       ELSE LET choice == json_first(choices.value)
            IN IF ~choice.ok THEN choice
               ELSE LET message == json_get(choice.value, "message",
                                            JsonDict(EmptyDict))
                    IN IF ~message.ok THEN message
                       ELSE json_get(message.value, "content", JsonStr(""))

\* the code fence of markdown, three backquotes; a TLA+ string cannot hold a
\* backquote, and the texts of the model write @ for it
CodeFence == "@@@"

IsLetter(c) == c # "" /\ (IndexIn(LowerLetters, c) > 0 \/ IndexIn(UpperLetters, c) > 0)

\* what is left of s after its leading [a-zA-Z]*
RECURSIVE AfterLetters(_)
AfterLetters(s) ==
    IF s # "" /\ IsLetter(SubSeq(s, 1, 1)) THEN AfterLetters(Tail(s)) ELSE s

markdown_to_json(text) ==
    IF ~JsonTruthy(text) THEN Return(text)
    ELSE IF text.type # "str" THEN Raise("AttributeError")
    ELSE LET stripped == str_strip(text.str)
             opened == IF Len(stripped) >= 3 /\ SubSeq(stripped, 1, 3) = CodeFence
                       THEN str_strip(AfterLetters(SubSeq(stripped, 4, Len(stripped))))
                       ELSE stripped
             closed == IF Len(opened) >= 3
                          /\ SubSeq(opened, Len(opened) - 2, Len(opened)) = CodeFence
                       THEN str_strip(SubSeq(opened, 1, Len(opened) - 3))
                       ELSE opened
         IN Return(JsonStr(closed))

\* the texts of the model that are JSON documents, and what json.loads makes
\* of them
JsonDocuments ==
    [text \in {"{\"brand\": null, \"item\": \"milk\", \"quantity\": null}",
               "{\"Brand\": \"organic valley\", \"Item\": \"milk\", \"Quantity\": \"\"}",
               "{\"brand\": \" \", \"item\": \"milk\", \"quantity\": \"1 gallon\"}",
               "{\"brand\": \"organic valley\", \"item\": \"milk\", \"quantity\": \"1 gallon\"}",
               "{\"brand\": \"organic valley\", \"item\": null, \"quantity\": \"1 gallon\"}",
               "{\"item\": 5}", "[1]"} |->
        CASE text = "{\"brand\": null, \"item\": \"milk\", \"quantity\": null}" ->
                JsonDict([brand |-> JsonNone,
                              item |-> JsonStr("milk"),
                              quantity |-> JsonNone])
          [] text = "{\"Brand\": \"organic valley\", \"Item\": \"milk\", \"Quantity\": \"\"}" ->
                JsonDict([Brand |-> JsonStr("organic valley"),
                              Item |-> JsonStr("milk"),
                              Quantity |-> JsonStr("")])
          [] text = "{\"brand\": \" \", \"item\": \"milk\", \"quantity\": \"1 gallon\"}" ->
                JsonDict([brand |-> JsonStr(" "),
                              item |-> JsonStr("milk"),
                              quantity |-> JsonStr("1 gallon")])
          [] text = "{\"brand\": \"organic valley\", \"item\": \"milk\", \"quantity\": \"1 gallon\"}" ->
                JsonDict([brand |-> JsonStr("organic valley"),
                              item |-> JsonStr("milk"),
                              quantity |-> JsonStr("1 gallon")])
          [] text = "{\"brand\": \"organic valley\", \"item\": null, \"quantity\": \"1 gallon\"}" ->
                JsonDict([brand |-> JsonStr("organic valley"),
                              item |-> JsonNone,
                              quantity |-> JsonStr("1 gallon")])
          [] text = "{\"item\": 5}" -> JsonDict([item |-> JsonInt(5)])
          [] text = "[1]" -> JsonList(<<JsonInt(1)>>)]

\* json.loads(content)
json_loads(content) ==
    IF content.type # "str" THEN Raise("TypeError")
    ELSE IF content.str \in DOMAIN JsonDocuments
    THEN Return(JsonDocuments[content.str])
    ELSE Raise("JSONDecodeError")

\* the first line of s, without its line end
RECURSIVE FirstLine(_)
FirstLine(s) ==
    IF s = "" \/ SubSeq(s, 1, 1) = "\n" THEN ""
    ELSE SubSeq(s, 1, 1) \o FirstLine(Tail(s))

\* s.splitlines()
RECURSIVE str_splitlines(_)
str_splitlines(s) ==
    LET line == FirstLine(s)
    IN IF s = "" THEN <<>>
       ELSE <<line>> \o str_splitlines(SubSeq(s, Len(line) + 2, Len(s)))

\* re.match(r"\s*\*\s*<label>:\s*(.+)", line, re.I): group(1) of the match,
\* None without a match
BulletMatch(label, line) ==
    LET t == str_lstrip(line)
        u == str_lstrip(SubSeq(t, 2, Len(t)))
        n == Len(label) + 1
        rest == SubSeq(u, n + 1, Len(u))
    IN IF /\ Ch(t, 1) = "*"
          /\ Len(u) > n
          /\ str_lower(SubSeq(u, 1, n)) = str_lower(label) \o ":"
       THEN Some(IF str_lstrip(rest) = "" THEN SubSeq(rest, Len(rest), Len(rest))
                 ELSE str_lstrip(rest))
       ELSE None

\* a component after the lines of the fallback parse: the last line that
\* matches its label sets it
RECURSIVE BulletValue(_, _, _)
BulletValue(label, lines, value) ==
    IF lines = <<>> THEN value
    ELSE LET m == BulletMatch(label, Head(lines))
             stripped == str_strip(Val(m))
         IN BulletValue(label, Tail(lines),
                        IF m = None THEN value
                        ELSE IF stripped = "" THEN JsonNone
                        ELSE JsonStr(stripped))

\* the fallback parse of a content that json.loads rejects
FallbackParse(content) ==
    IF content.type # "str" THEN Raise("AttributeError")
    ELSE LET lines == str_splitlines(content.str)
         IN Return(JsonDict(
                [brand |-> BulletValue("Brand", lines, JsonNone),
                 item |-> BulletValue("Item", lines, JsonNone),
                 quantity |-> BulletValue("Quantity", lines, JsonNone)]))

\* parsed.get(key) or parsed.get(Key), None when parsed is not a dict
EitherKey(parsed, key, Key) ==
    IF parsed.type # "dict" THEN JsonNone
    ELSE IF JsonTruthy(Get(parsed.dict, key, JsonNone))
    THEN parsed.dict[key]
    ELSE Get(parsed.dict, Key, JsonNone)

\* the decimal digits of a natural number
RECURSIVE Digits(_)
Digits(n) ==
    IF n < 10 THEN Ch(DigitChars, n + 1)
    ELSE Digits(n \div 10) \o Ch(DigitChars, (n % 10) + 1)

\* str(x) of a string or a natural number
py_str(x) ==
    CASE x.type = "str" -> x.str
      [] x.type = "int" -> Digits(x.int)

nz(x) ==
    IF x.type = "NoneType" THEN None
    ELSE IF str_strip(py_str(x)) = "" THEN None
    ELSE Some(str_strip(py_str(x)))

\* the end of the try body: the components of what was parsed
ResultOf(parsed) ==
    IF ~parsed.ok THEN parsed
    ELSE Return(Some([brand |-> nz(EitherKey(parsed.value, "brand", "Brand")),
                      item |-> nz(EitherKey(parsed.value, "item", "Item")),
                      quantity |-> nz(EitherKey(parsed.value, "quantity", "Quantity"))]))

\* the inner try statement: what json.loads returned, or the fallback parse
ParsedOrFallback(loaded, content) ==
    IF loaded.ok THEN loaded ELSE FallbackParse(content)

\* the try body from the cleaned content on
FromCleaned(cleaned) ==
    IF ~cleaned.ok THEN cleaned
    ELSE ResultOf(ParsedOrFallback(json_loads(cleaned.value), cleaned.value))

\* the try body from the message content on
FromContent(content) ==
    IF ~content.ok THEN content ELSE FromCleaned(markdown_to_json(content.value))

\* the body of the outer try statement
ExtractAttempt(remote) ==
    IF remote.urlopen # "ok" THEN Raise(remote.urlopen)
    ELSE IF ~remote.payload.ok THEN remote.payload
    ELSE FromContent(MessageContent(remote.payload.value))

\* the classes the last except clause catches
Exceptions ==
    {"HTTPError", "URLError", "TimeoutError", "JSONDecodeError", "AttributeError",
     "IndexError", "KeyError", "TypeError"}

\* the except clauses without the last one
ExceptUrlErrors(attempt) ==
    IF attempt.ok THEN attempt
    ELSE IF attempt.error = "HTTPError" THEN Return(None)
    ELSE IF attempt.error = "URLError" THEN Return(None)
    ELSE attempt
\* the except clauses of the outer try statement
ExceptClauses(attempt) ==
    IF attempt.ok THEN attempt
    ELSE IF attempt.error = "HTTPError" THEN Return(None)
    ELSE IF attempt.error = "URLError" THEN Return(None)
    ELSE IF attempt.error \in Exceptions THEN Return(None)
    ELSE attempt

call_openai_extract_components(remote) ==
    IF ~remote.api_key THEN Return(None) ELSE ExceptClauses(ExtractAttempt(remote))

-----------------------------------------------------------------------------
(* POST /match-products-for-stores                                         *)

\* bool(x) of an optional text
Truthy(o) == o # None /\ Val(o) # ""

MAJOR_STORES ==
    << "walmart", "wal-mart", "wal mart", "kroger", "kroger marketplace",
       "h-e-b", "heb", "h.e.b", "tom thumb", "target", "aldi", "costco",
       "albertsons", "publix", "whole foods", "whole foods market",
       "trader joe", "trader joes", "safeway", "wegmans", "meijer", "hy-vee",
       "shoprite", "stop & shop", "giant", "harris teeter", "food lion",
       "ralphs", "fred meyer", "king soopers", "smiths", "frys", "qfc",
       "marianos", "jewel-osco", "acme", "shaws", "star market", "vons",
       "pavilions", "randalls", "market street", "central market", "sprouts",
       "fresh market", "earth fare" >>

\* a variant that lets the names of any two stores match on a shared word
StoreNamesShareWord(hasdata_store, nearby_store) ==
    LET hasdata_lower == str_strip(str_lower(hasdata_store))
        nearby_lower == str_strip(str_lower(nearby_store))
        hasdata_words == {w \in SeqToSet(str_split(hasdata_lower)) : Len(w) > 1}
        nearby_words == {w \in SeqToSet(str_split(nearby_lower)) : Len(w) > 1}
    IN \/ hasdata_lower = nearby_lower
       \/ hasdata_words \cap nearby_words # {}

StoreNamesMatch(hasdata_store, nearby_store) ==
    LET hasdata_lower == str_strip(str_lower(hasdata_store))
        nearby_lower == str_strip(str_lower(nearby_store))
        is_major_store == \E k \in 1..Len(MAJOR_STORES) :
                             \/ str_in(MAJOR_STORES[k], hasdata_lower)
                             \/ str_in(MAJOR_STORES[k], nearby_lower)
        hasdata_words == {w \in SeqToSet(str_split(hasdata_lower)) : Len(w) > 1}
        nearby_words == {w \in SeqToSet(str_split(nearby_lower)) : Len(w) > 1}
    IN \/ hasdata_lower = nearby_lower
       \/ is_major_store /\ hasdata_words \cap nearby_words # {}

StoreMatchTable ==
    [k \in HasDataStoreNames \X NearbyStoreNames |-> StoreNamesMatch(k[1], k[2])]

match_store_names(hasdata_store, nearby_store) ==
    IF <<hasdata_store, nearby_store>> \in DOMAIN StoreMatchTable
    THEN StoreMatchTable[<<hasdata_store, nearby_store>>]
    ELSE StoreNamesMatch(hasdata_store, nearby_store)

\* result.get("source", "Unknown")
StoreOf(product) == Get(product, "source", "Unknown")

\* list(store_results.keys()): the stores in the order they first appear
RECURSIVE StoreKeys(_)
StoreKeys(hasdata_results) ==
    IF hasdata_results = <<>> THEN <<>>
    ELSE LET n == Len(hasdata_results)
             before == StoreKeys(SubSeq(hasdata_results, 1, n - 1))
             store_name == StoreOf(hasdata_results[n])
         IN IF store_name \in SeqToSet(before) THEN before
            ELSE Append(before, store_name)

\* a variant of store_results that puts every candidate in every group
StoreIndicesOfAll(hasdata_results, store_name) ==
    [i \in 1..Len(hasdata_results) |-> i]

\* the indices, in hasdata_results, of store_results[store_name]
StoreIndices(hasdata_results, store_name) ==
    LET OfStore(i) == StoreOf(hasdata_results[i]) = store_name
    IN SelectSeq([i \in 1..Len(hasdata_results) |-> i], OfStore)

\* the first of the stores that matches nearby_store, an empty store name
\* being dropped by "if best_match"
FirstMatching(hasdata_store_names, nearby_store) ==
    LET matching == {k \in 1..Len(hasdata_store_names) :
                        match_store_names(hasdata_store_names[k], nearby_store)}
        first == CHOOSE k \in matching : \A j \in matching : k <= j
    IN IF matching = {} THEN None
       ELSE IF hasdata_store_names[first] = "" THEN None
       ELSE Some(hasdata_store_names[first])

\* store_mapping.get(nearby_store): None or the HasData store mapped to it
MappedStore(hasdata_results, nearby_store) ==
    FirstMatching(StoreKeys(hasdata_results), nearby_store)

\* the weights, conf_threshold and tie_delta of the two classic attempts
ClassicWeights == [token_set |-> 50, embed |-> 30, partial |-> 15, brand |-> 5]
ClassicConfThreshold == 1500
ClassicTieDelta == 2000
LowWeights == [token_set |-> 40, embed |-> 20, partial |-> 30, brand |-> 10]
LowConfThreshold == 1000
LowTieDelta == 2500
\* the scores of the priority selections, 0.99 and 0.9, and of the cheapest
\* fallback, 0.05
FullPriorityScore == 9900
PriorityScore == 9000
CheapestFallbackScore == 500

Call(function, returned) == [function |-> function, returned |-> returned]

\* the entry of store_matches for a priority selection
PriorityMatch(picked_via_llm, item_comp, brand_comp, quantity_liters) ==
    LET all_three == Truthy(item_comp) /\ Truthy(brand_comp) /\ quantity_liters # None
        case == IF all_three THEN "highest_priority"
                ELSE IF Truthy(item_comp) /\ Truthy(brand_comp) THEN "second_case"
                ELSE IF Truthy(item_comp) /\ quantity_liters # None THEN "third_case"
                ELSE "fourth_case"
    IN [product |-> picked_via_llm,
        score |-> IF all_three THEN FullPriorityScore ELSE PriorityScore,
        confidence_ok |-> TRUE,
        reason |-> "llm_priority_selection_" \o case,
        exact_match |-> all_three]

\* item_comp, brand_comp, quantity_comp of the extractor's answer
Component(llm_components, key) ==
    IF llm_components = None THEN None ELSE Val(llm_components)[key]

StoreMatch(product, score, confidence_ok, reason) ==
    [product |-> product, score |-> score, confidence_ok |-> confidence_ok,
     reason |-> reason, exact_match |-> FALSE]

\* what one pass of the loop leaves: the entry of store_matches, or None, the
\* calls it made, in order, and the exception its except clause caught, or
\* None
Pass(match, calls, raised) == [match |-> match, calls |-> calls, raised |-> raised]

\* the logger.info line after an entry is stored reads product[key] for each
\* of the keys, in order: None, or the KeyError of the first key missing
RECURSIVE LogLine(_, _)
LogLine(product, keys) ==
    IF keys = <<>> THEN None
    ELSE IF keys[1] \notin DOMAIN product THEN Some(KeyError(keys[1]))
    ELSE LogLine(product, Tail(keys))

\* the exception a call raised
Caught(outcome) == Some(Raised(outcome))

\* "if match_result["selected"]": a product was selected and it is not the
\* empty dict
SelectedTruthy(match_result) ==
    match_result.value.selected # None /\ DOMAIN Val(match_result.value.selected) # {}

\* the last resort, given what find_cheapest_relevant_product did
AfterCheapest(calls, cheapest_match) ==
    IF cheapest_match.ok /\ cheapest_match.value # None
    THEN Pass(Some(StoreMatch(Val(cheapest_match.value), CheapestFallbackScore, FALSE,
                              "cheapest_fallback")),
              Append(calls, Call("find_cheapest_relevant_product", cheapest_match)),
              LogLine(Val(cheapest_match.value), <<"title", "extractedPrice">>))
    ELSE Pass(None, Append(calls, Call("find_cheapest_relevant_product", cheapest_match)),
              IF cheapest_match.ok THEN None ELSE Caught(cheapest_match))

\* a variant of the second classic attempt that reports the reason of
\* select_best_product as it is
AfterLowSameReason(query, store_products, calls, match_result_low) ==
    IF ~match_result_low.ok
    THEN Pass(None, Append(calls, Call("select_best_product", match_result_low)),
              Caught(match_result_low))
    ELSE IF SelectedTruthy(match_result_low)
    THEN Pass(Some(StoreMatch(Val(match_result_low.value.selected),
                              match_result_low.value.score, FALSE,
                              match_result_low.value.reason)),
              Append(calls, Call("select_best_product", match_result_low)),
              LogLine(Val(match_result_low.value.selected), <<"title", "extractedPrice">>))
    ELSE AfterCheapest(Append(calls, Call("select_best_product", match_result_low)),
                       find_cheapest_relevant_product(query, store_products))

\* the second classic attempt, given what select_best_product did
AfterLow(query, store_products, calls, match_result_low) ==
    IF ~match_result_low.ok
    THEN Pass(None, Append(calls, Call("select_best_product", match_result_low)),
              Caught(match_result_low))
    ELSE IF SelectedTruthy(match_result_low)
    THEN Pass(Some(StoreMatch(Val(match_result_low.value.selected),
                              match_result_low.value.score, FALSE,
                              "low_confidence_" \o match_result_low.value.reason)),
              Append(calls, Call("select_best_product", match_result_low)),
              LogLine(Val(match_result_low.value.selected), <<"title", "extractedPrice">>))
    ELSE AfterCheapest(Append(calls, Call("select_best_product", match_result_low)),
                       find_cheapest_relevant_product(query, store_products))

\* the first classic attempt, given what select_best_product did
AfterClassic(query, store_products, signals, calls, match_result) ==
    IF ~match_result.ok
    THEN Pass(None, Append(calls, Call("select_best_product", match_result)),
              Caught(match_result))
    ELSE IF SelectedTruthy(match_result)
    THEN Pass(Some(StoreMatch(Val(match_result.value.selected), match_result.value.score,
                              match_result.value.confidence_ok,
                              match_result.value.reason)),
              Append(calls, Call("select_best_product", match_result)),
              LogLine(Val(match_result.value.selected), <<"title", "extractedPrice">>))
    ELSE AfterLow(query, store_products,
                  Append(calls, Call("select_best_product", match_result)),
                  select_best_product(query, store_products, signals, Some(LowWeights),
                                      LowConfThreshold, LowTieDelta))

\* the fallback to the classic algorithm, after the calls made so far
ClassicFallback(query, store_products, signals, calls) ==
    AfterClassic(query, store_products, signals, calls,
                 select_best_product(query, store_products, signals, Some(ClassicWeights),
                                     ClassicConfThreshold, ClassicTieDelta))

\* the pass after the priority selection, picked_via_llm being what
\* select_by_priority_conditions returned
AfterPriority(query, store_products, signals, item_comp, brand_comp, quantity_liters, picked_via_llm) ==
    IF picked_via_llm # None
    THEN Pass(Some(PriorityMatch(Val(picked_via_llm), item_comp, brand_comp,
                                 quantity_liters)),
              <<Call("select_by_priority_conditions", picked_via_llm)>>,
              LogLine(Val(picked_via_llm), <<"title">>))
    ELSE ClassicFallback(query, store_products, signals,
                         <<Call("select_by_priority_conditions", picked_via_llm)>>)

\* a variant of the loop body that goes to the classic algorithm at once
ClassicFirst(query, store_products, signals, item_comp, brand_comp, quantity_liters) ==
    ClassicFallback(query, store_products, signals, <<>>)

\* the body of the loop for one mapped store
MatchStoreProducts(query, store_products, signals, item_comp, brand_comp, quantity_liters) ==
    IF Truthy(item_comp) \/ Truthy(brand_comp) \/ quantity_liters # None
    THEN AfterPriority(query, store_products, signals, item_comp, brand_comp,
                       quantity_liters,
                       select_by_priority_conditions(store_products, item_comp, brand_comp,
                                                     quantity_liters))
    ELSE ClassicFallback(query, store_products, signals, <<>>)

\* store_matches after a pass
Matched(matches, nearby_store, pass) ==
    IF pass.match = None THEN matches
    ELSE [s \in DOMAIN matches \cup {nearby_store} |->
             IF s = nearby_store THEN Val(pass.match) ELSE matches[s]]

\* store_results[store], as the indices of its products in hasdata_results
Picked(seq, indices) == [i \in 1..Len(indices) |-> seq[indices[i]]]

\* the pass of the loop for nearby_store, mapped to hasdata_store
StorePass(req, signals, hasdata_store) ==
    MatchStoreProducts(req.query,
        Picked(req.hasdata_results, StoreIndices(req.hasdata_results, hasdata_store)),
        Picked(signals, StoreIndices(req.hasdata_results, hasdata_store)),
        Component(req.llm_components, "item"),
        Component(req.llm_components, "brand"),
        parse_volume_to_liters_from_quantity_string(
            Component(req.llm_components, "quantity")))

\* the pass called find_cheapest_relevant_product, by itself or through the
\* general path of select_best_product
ReachedGeneralSelector(query, calls) ==
    \E j \in 1..Len(calls) :
        \/ calls[j].function = "find_cheapest_relevant_product"
        \/ calls[j].function = "select_best_product" /\ is_general_query(query)

\* hasdata_results after a pass: store_results[store] holds the dicts of
\* hasdata_results themselves, so what the general-query selector sets on the
\* products of the store is set on them
ProductsAfterPass(req, hasdata_store, pass) ==
    IF hasdata_store = None \/ ~ReachedGeneralSelector(req.query, pass.calls)
    THEN req.hasdata_results
    ELSE [i \in 1..Len(req.hasdata_results) |->
             IF StoreOf(req.hasdata_results[i]) = Val(hasdata_store)
             THEN StampedInPlace(req.query, <<req.hasdata_results[i]>>)[1]
             ELSE req.hasdata_results[i]]

\* the state of the loop after the pass for nearby_stores[at]
AfterPass(req, at, matches, log, hasdata_store, pass) ==
    IF hasdata_store = None
    THEN [store_matches |-> matches, call_log |-> log,
          hasdata_results |-> req.hasdata_results]
    ELSE [hasdata_results |-> ProductsAfterPass(req, hasdata_store, pass),
          store_matches |-> Matched(matches, req.nearby_stores[at], pass),
          call_log |-> Append(log, [pass |-> at, store |-> req.nearby_stores[at],
                                    hasdata_store |-> Val(hasdata_store),
                                    calls |-> pass.calls, raised |-> pass.raised])]

\* the response of the endpoint, processing_time_ms left out
StoresResponse(nearby_stores, matches) ==
    LET NeedsAi(store) == store \notin DOMAIN matches
        stores_needing_ai == SelectSeq(nearby_stores, NeedsAi)
    IN [status_code |-> 200,
        body |-> [store_matches |-> matches,
                  stores_needing_ai |-> stores_needing_ai,
                  total_stores |-> Len(nearby_stores),
                  matched_stores |-> Cardinality(DOMAIN matches),
                  ai_stores |-> Len(stores_needing_ai)]]

-----------------------------------------------------------------------------
(* Requests                                                                *)

\* the most candidates of a single-query request
MaxCandidates == 3

Product(title, price, source) ==
    [title |-> title, extractedPrice |-> price, source |-> source]
Signal(token_set, partial, embed) ==
    [token_set |-> token_set, partial |-> partial, embed |-> embed]

\* candidates of single-query requests, each with the signals the libraries
\* give for it
CandidatePool ==
    { <<Product("H-E-B Whole Milk", Some(282), "H-E-B"), Signal(100, 100, 60)>>,
      <<Product("Great Value Whole Milk 1 gal", Some(257), "Walmart"), Signal(100, 100, 80)>>,
      <<Product("Lucerne Whole Milk 1 gallon", Some(282), "Albertsons"), Signal(100, 100, 80)>>,
      <<Product("Good & Gather Whole Milk 64 fl oz", Some(199), "Target"), Signal(92, 100, 80)>>,
      <<Product("Whole Milk", Some(249), "Kroger"), Signal(100, 100, 70)>>,
      <<[title |-> "Milk", source |-> "Kroger"], Signal(100, 100, 62)>>,
      <<Product("Milk", None, "Kroger"), Signal(100, 100, 62)>>,
      <<Product("Orange Juice 128 fl oz", Some(399), "Walmart"), Signal(30, 40, 20)>> }

\* <<weights, conf_threshold, tie_delta>> of a request
RequestOptions ==
    { <<None, 5500, 500>>, <<None, 9900, 0>>, <<None, 5500, -500>>,
      <<Some([token_set |-> 60, brand |-> 10]), 3000, 1000>> }

SeqsUpTo(S, n) == UNION {[1..k -> S] : k \in 0..n}

-----------------------------------------------------------------------------
(* The single-query endpoint of the two services as a state machine        *)

Init ==
    /\ pc = "idle"
    /\ request = <<>>
    /\ lib_signals = <<>>
    /\ result = <<>>
    /\ response = <<>>
    /\ cursor = 0
    /\ store_matches = <<>>
    /\ call_log = <<>>

\* a client posts a single-query match request to one of the two services
Submit ==
    /\ pc = "idle"
    /\ \E service \in {"product_matcher_service", "simple_product_matcher"},
          query \in Queries, picked \in SeqsUpTo(CandidatePool, MaxCandidates),
          options \in RequestOptions :
          /\ request' = [service |-> service,
                         query |-> query,
                         hasdata_results |-> [i \in 1..Len(picked) |-> picked[i][1]],
                         weights |-> options[1],
                         conf_threshold |-> options[2],
                         tie_delta |-> options[3]]
          /\ lib_signals' = [i \in 1..Len(picked) |-> picked[i][2]]
    /\ pc' = "received"
    /\ result' = <<>>
    /\ response' = <<>>
    /\ UNCHANGED <<cursor, store_matches, call_log>>

\* product_matcher_service handles the request
MatchProducts ==
    /\ pc = "received"
    /\ request.service = "product_matcher_service"
    /\ result' = IF Rejected(request) THEN <<>>
                  ELSE select_best_product(request.query, request.hasdata_results,
                                           lib_signals, request.weights,
                                           request.conf_threshold, request.tie_delta)
    /\ response' = MatchProductsResponse(request, result')
    /\ request' = IF Rejected(request) THEN request
                   ELSE [request EXCEPT !.hasdata_results =
                            ProductsAfterSelect(request.query, request.hasdata_results)]
    /\ pc' = "responded"
    /\ UNCHANGED <<lib_signals, cursor, store_matches, call_log>>

\* simple_product_matcher handles the request
SimpleMatchProducts ==
    /\ pc = "received"
    /\ request.service = "simple_product_matcher"
    /\ result' = IF Rejected(request) THEN <<>>
                  ELSE simple_select_best_product(request.query, request.hasdata_results,
                                                  lib_signals, request.weights,
                                                  request.conf_threshold,
                                                  request.tie_delta)
    /\ response' = MatchProductsResponse(request, result')
    /\ pc' = "responded"
    /\ UNCHANGED <<request, lib_signals, cursor, store_matches, call_log>>

\* the client has its response
Done ==
    /\ pc = "responded"
    /\ pc' = "idle"
    /\ request' = <<>>
    /\ lib_signals' = <<>>
    /\ result' = <<>>
    /\ response' = <<>>
    /\ UNCHANGED <<cursor, store_matches, call_log>>

Next == Submit \/ MatchProducts \/ SimpleMatchProducts \/ Done

Spec == Init /\ [][Next]_vars

-----------------------------------------------------------------------------
(* select_by_priority_conditions on its own                                *)

\* the most products of a store
MaxStoreProducts == 3

PriorityPool ==
    { Product("Organic Valley Whole Milk 1 gal", Some(599), "Kroger"),
      [title |-> "Organic Valley Whole Milk 1 Gallon", source |-> "Kroger"],
      Product("Organic Valley Whole Milk 1 Gallon", Some(599), "Kroger"),
      Product("Great Value Whole Milk 1 gal", Some(257), "Kroger"),
      Product("Organic Valley Milk 64 fl oz", Some(449), "Kroger"),
      Product("H-E-B Whole Milk", Some(282), "Kroger"),
      Product("Organic Valley Butter", Some(399), "Kroger"),
      Product("Sourdough Bread", Some(100), "Kroger") }

InitPriority ==
    /\ pc = "priority_called"
    /\ request \in [store_products : SeqsUpTo(PriorityPool, MaxStoreProducts),
                    item : {None, Some(""), Some("milk")},
                    brand : {None, Some("organic valley")},
                    quantity_liters : {None, parse_volume_to_liters("1 gallon")}]
    /\ lib_signals = <<>>
    /\ result = <<>>
    /\ response = <<>>
    /\ cursor = 0
    /\ store_matches = <<>>
    /\ call_log = <<>>

SelectByPriority ==
    /\ pc = "priority_called"
    /\ result' = select_by_priority_conditions(request.store_products, request.item,
                                               request.brand, request.quantity_liters)
    /\ pc' = "priority_returned"
    /\ UNCHANGED <<request, lib_signals, response, cursor, store_matches, call_log>>

NextPriority == SelectByPriority

SpecPriority == InitPriority /\ [][NextPriority]_vars

-----------------------------------------------------------------------------
(* The per-store batch endpoint as a state machine                         *)

\* the most candidates of a batch request
MaxBatchCandidates == 2

\* the candidate {}

\* candidates of batch requests, each with the signals the libraries give
StoresPool ==
    { <<Product("Great Value Whole Milk 1 gal", Some(257), "Walmart"), Signal(100, 100, 80)>>,
      <<Product("Orange Juice 128 fl oz", Some(399), "Walmart"), Signal(30, 40, 20)>>,
      <<Product("Organic Valley Whole Milk 1 gal", Some(599), "Target"), Signal(100, 100, 75)>>,
      <<Product("Whole Milk", Some(249), "Target"), Signal(100, 100, 70)>>,
      <<Product("Milk", None, "Kroger"), Signal(100, 100, 62)>>,
      <<[title |-> "Whole Milk"], Signal(100, 100, 70)>>,
      <<[title |-> "zzzzzzzzzk", extractedPrice |-> None], Signal(7, 10, 42)>>,
      <<EmptyDict, Signal(0, 0, 60)>> }

NearbyLists ==
    { <<>>, <<"Walmart Supercenter">>, <<"Target", "Walmart Supercenter">>,
      <<"Kroger", "Aldi">>, <<"Kroger", "Target">>, <<"unknown", "Target">>,
      <<"Walmart", "Walmart Supercenter">>, <<"Target Kroger">>,
      <<"Walmart Supercenter", "Walmart Supercenter">>, <<"Aldi", "Aldi">> }

\* a response body that json.loads decodes to a chat completion with the
\* given message content
Completion(content) ==
    Return(JsonDict(
        [choices |-> JsonList(
            <<JsonDict([message |-> JsonDict([content |-> content])])>>)]))

Remote(api_key, urlopen, payload) ==
    [api_key |-> api_key, urlopen |-> urlopen, payload |-> payload]

\* what the call of the remote model comes to
RemoteOutcomes ==
    { Remote(FALSE, "ok", Completion(JsonStr("{\"item\": 5}"))),
      Remote(TRUE, "HTTPError", Raise("JSONDecodeError")),
      Remote(TRUE, "URLError", Raise("JSONDecodeError")),
      Remote(TRUE, "TimeoutError", Raise("JSONDecodeError")),
      Remote(TRUE, "ok", Raise("JSONDecodeError")),
      Remote(TRUE, "ok", Return(JsonList(<<>>))),
      Remote(TRUE, "ok", Return(JsonDict(EmptyDict))),
      Remote(TRUE, "ok", Return(JsonDict([choices |-> JsonList(<<>>)]))),
      Remote(TRUE, "ok", Return(JsonDict([choices |-> JsonNone]))),
      Remote(TRUE, "ok", Return(JsonDict(
          [choices |-> JsonList(<<JsonDict([message |-> JsonStr("milk")])>>)]))),
      Remote(TRUE, "ok", Completion(JsonNone)),
      Remote(TRUE, "ok", Completion(JsonInt(5))),
      Remote(TRUE, "ok", Completion(JsonStr("milk, any brand"))),
      Remote(TRUE, "ok", Completion(JsonStr("[1]"))),
      Remote(TRUE, "ok", Completion(JsonStr("{\"item\": 5}"))),
      Remote(TRUE, "ok", Completion(JsonStr("* Brand:  \n * item: milk \n* Quantity:"))),
      Remote(TRUE, "ok", Completion(JsonStr(
          "{\"brand\": null, \"item\": \"milk\", \"quantity\": null}"))),
      Remote(TRUE, "ok", Completion(JsonStr(
          "{\"Brand\": \"organic valley\", \"Item\": \"milk\", \"Quantity\": \"\"}"))),
      Remote(TRUE, "ok", Completion(JsonStr(
          "@@@json\n{\"brand\": \" \", \"item\": \"milk\", \"quantity\": \"1 gallon\"}\n@@@"))),
      Remote(TRUE, "ok", Completion(JsonStr(
          "{\"brand\": \"organic valley\", \"item\": null, \"quantity\": \"1 gallon\"}"))),
      Remote(TRUE, "ok", Completion(JsonStr(
          "{\"brand\": \"organic valley\", \"item\": \"milk\", \"quantity\": \"1 gallon\"}"))) }

\* a client posts a batch request; what the remote model will answer is fixed
\* with it, and llm_components is not assigned yet
SubmitStores ==
    /\ pc = "idle"
    /\ \E query \in {"milk", "whole milk 1 gallon", "organic whole milk", ""}, picked \in SeqsUpTo(StoresPool, MaxBatchCandidates),
          nearby_stores \in NearbyLists, remote \in RemoteOutcomes :
          /\ request' = [query |-> query,
                         hasdata_results |-> [i \in 1..Len(picked) |-> picked[i][1]],
                         nearby_stores |-> nearby_stores,
                         remote |-> remote,
                         llm_components |-> None]
          /\ lib_signals' = [i \in 1..Len(picked) |-> picked[i][2]]
    /\ pc' = "stores_received"
    /\ UNCHANGED <<result, response, cursor, store_matches, call_log>>

\* the handler up to the loop over nearby_stores: validation, grouping,
\* extraction and store mapping
StartStores ==
    /\ pc = "stores_received"
    /\ IF request.query = "" \/ request.hasdata_results = <<>>
       THEN /\ response' = [status_code |-> 500,
                            error |-> HTTPException(400,
                                         "Query and hasdata_results are required")]
            /\ pc' = "responded"
            /\ UNCHANGED <<request, cursor>>
       ELSE \E extraction \in {call_openai_extract_components(request.remote)} :
               IF ~extraction.ok
               THEN /\ response' = [status_code |-> 500, error |-> Raised(extraction)]
                    /\ pc' = "responded"
                    /\ UNCHANGED <<request, cursor>>
               ELSE /\ request' = [request EXCEPT !.llm_components = extraction.value]
                    /\ cursor' = 1
                    /\ pc' = "stores_loop"
                    /\ UNCHANGED response
    /\ UNCHANGED <<lib_signals, result, store_matches, call_log>>

\* one pass of the loop over nearby_stores
MatchStore ==
    /\ pc = "stores_loop"
    /\ cursor <= Len(request.nearby_stores)
    /\ \E after \in
          {AfterPass(request, cursor, store_matches, call_log,
                     MappedStore(request.hasdata_results, request.nearby_stores[cursor]),
                     IF MappedStore(request.hasdata_results,
                                    request.nearby_stores[cursor]) = None
                     THEN Pass(None, <<>>, None)
                     ELSE StorePass(request, lib_signals,
                                    Val(MappedStore(request.hasdata_results,
                                                    request.nearby_stores[cursor]))))} :
          /\ store_matches' = after.store_matches
          /\ call_log' = after.call_log
          /\ request' = [request EXCEPT !.hasdata_results = after.hasdata_results]
    /\ cursor' = cursor + 1
    /\ UNCHANGED <<pc, lib_signals, result, response>>

\* the handler after the loop
RespondStores ==
    /\ pc = "stores_loop"
    /\ cursor > Len(request.nearby_stores)
    /\ response' = StoresResponse(request.nearby_stores, store_matches)
    /\ pc' = "responded"
    /\ UNCHANGED <<request, lib_signals, result, cursor, store_matches, call_log>>

\* the client has its response
DoneStores ==
    /\ pc = "responded"
    /\ pc' = "idle"
    /\ request' = <<>>
    /\ lib_signals' = <<>>
    /\ response' = <<>>
    /\ cursor' = 0
    /\ store_matches' = <<>>
    /\ call_log' = <<>>
    /\ UNCHANGED result

NextStores == SubmitStores \/ StartStores \/ MatchStore \/ RespondStores \/ DoneStores

SpecStores == Init /\ [][NextStores]_vars

-----------------------------------------------------------------------------
(* compute_final_score of the two services on its own                      *)

\* what a feature of a candidate may hold, in percent: the libraries give
\* values from 0 to 100, the scorer is also given values outside of them
ScoreSignals == {-50, 0, 60, 100, 150}

\* the weights of a request: None, or a dict with some or all of the keys
WeightMaps ==
    { None,
      Some([token_set |-> 60, brand |-> 10]),
      Some([token_set |-> 100]),
      Some([token_set |-> 50, partial |-> 25, brand |-> 15]),
      Some([token_set |-> 40, embed |-> 20, partial |-> 30, brand |-> 10]) }

InitScore ==
    /\ pc = "score_called"
    /\ request \in [service : {"product_matcher_service", "simple_product_matcher"},
                    feat : [token_set : ScoreSignals, partial : ScoreSignals,
                            embed : ScoreSignals, brand_match : {0, 100}],
                    weights : WeightMaps]
    /\ lib_signals = <<>>
    /\ result = <<>>
    /\ response = <<>>
    /\ cursor = 0
    /\ store_matches = <<>>
    /\ call_log = <<>>

\* the score select_best_product of the service sets on the feature; in the
\* simplified service feat.embed stands for the TF-IDF cosine
ComputeScore ==
    /\ pc = "score_called"
    /\ result' = IF request.service = "product_matcher_service"
                  THEN Scored(request.feat, WeightsOr(request.weights, DefaultWeights)).score
                  ELSE SimpleScored(request.feat,
                                    WeightsOr(request.weights, SimpleDefaultWeights),
                                    request.feat.embed).score
    /\ pc' = "score_returned"
    /\ UNCHANGED <<request, lib_signals, response, cursor, store_matches, call_log>>

NextScore == ComputeScore

SpecScore == InitScore /\ [][NextScore]_vars

-----------------------------------------------------------------------------
(* The text functions of the service on their own: a call of one function  *)
(* with its arguments, and what it returns                                 *)

\* store names: equal but for case and blanks, with and without the name of
\* a major store, sharing a word, a single letter or nothing
StoreTexts ==
    {"Walmart", " walmart ", "Walmart Supercenter", "Walmarts Market", "Corner Store",
     "Corner Deli", "Walmart A", "Target A", "Giant Eagle", "Eagle Mart", ""}

\* queries for each rule of the classifier: empty, with a specific indicator,
\* of one word, of few meaningful words, with a basic category in at most
\* three words, with a number, with a descriptive word, and others
ClassifierQueries ==
    {"", "  ", "milk", "Bananas", "organic milk", "whole milk 1 gallon", "tide pods",
     "milk and bread", "a b c d", "light milk 123", "light cream cheese",
     "steam iron board", "steam iron board cover", "light coconut spread 123",
     "coconut spread 123", "light coconut cooking spray", "coconut cooking spray",
     "coconut cooking spray can", "2% milk", "half gallon milk jug"}

\* the unit tokens of the documented table, each with the liters of one unit
UnitTokens ==
    << <<"gal", GallonFactor>>, <<"gallon", GallonFactor>>, <<"gallons", GallonFactor>>,
       <<"fl oz", OunceFactor>>, <<"fluid oz", OunceFactor>>, <<"oz", OunceFactor>>,
       <<"l", LiterFactor>>, <<"litre", LiterFactor>>, <<"liter", LiterFactor>>,
       <<"liters", LiterFactor>>,
       <<"ml", MilliliterFactor>>, <<"milliliter", MilliliterFactor>>,
       <<"milliliters", MilliliterFactor>>, <<"millilitre", MilliliterFactor>>,
       <<"millilitres", MilliliterFactor>>,
       <<"qt", QuartFactor>>, <<"quart", QuartFactor>>, <<"quarts", QuartFactor>>,
       <<"pt", PintFactor>>, <<"pint", PintFactor>>, <<"pints", PintFactor>> >>

\* numbers as they are written, each with its value in tenths
VolumeNumbers == {<<"1", 10>>, <<"16", 160>>, <<"1.5", 15>>}

\* texts with the occurrences of several patterns in either order, of one
\* pattern twice, of none
MixedVolumeTexts ==
    {"16 oz 1 gal", "1 gal 16 oz", "500 ml 2 l", "2 l 500 ml", "1 pt 1 qt", "1 qt 2 l",
     "3 pints 2 quarts 1 ml", "2 Liters 1 GALLON", "1 gallon 2 gallons", "1gal", "1.5gallons",
     "Whole Milk 128 fl oz", "2 litres", "500 ml", "500 millilitres", "milk", "", " ", "gal 1", "12 pack", "1 galaxy"}

VolumeTexts ==
    MixedVolumeTexts
    \cup {n[1] \o " " \o UnitTokens[u][1] : n \in VolumeNumbers, u \in 1..Len(UnitTokens)}

\* texts with upper case, runs of blanks, kept and dropped punctuation and
\* the stand-ins of the dashes and of the right single quote
NormalizerTexts ==
    {"", " ", "Whole Milk", "  Whole   Milk ", "H-E-B Milk", "Milk (2%)", "Ben & Jerry's",
     "Ben & Jerry|s", "half~gallon", "a^b", "1.5 L, 2-pack", "a/b", "a / b", "A\nB",
     "Milk!!", "!!!", "50% OFF", "(1)", "whole milk 1 gallon", "a_b", "x  +  y"}

TextCalls ==
    [function : {"match_store_names"}, args : StoreTexts \X StoreTexts]
    \cup [function : {"normalize_text"}, args : {<<t>> : t \in NormalizerTexts}]
    \cup [function : {"is_general_query"}, args : {<<q>> : q \in ClassifierQueries}]
    \cup [function : {"parse_volume_to_liters"}, args : {<<t>> : t \in VolumeTexts}]

\* the calls of the quantity-string entry point: quantity_text is None or a text
QuantityCalls ==
    [function : {"parse_volume_to_liters_from_quantity_string"},
     args : {<<None>>} \cup {<<Some(t)>> : t \in MixedVolumeTexts}]

InitText ==
    /\ pc = "text_called"
    /\ request \in TextCalls \/ request \in QuantityCalls
    /\ lib_signals = <<>>
    /\ result = <<>>
    /\ response = <<>>
    /\ cursor = 0
    /\ store_matches = <<>>
    /\ call_log = <<>>

MatchStoreNames ==
    /\ pc = "text_called"
    /\ request.function = "match_store_names"
    /\ result' = match_store_names(request.args[1], request.args[2])
    /\ pc' = "text_returned"
    /\ UNCHANGED <<request, lib_signals, response, cursor, store_matches, call_log>>

IsGeneralQuery ==
    /\ pc = "text_called"
    /\ request.function = "is_general_query"
    /\ result' = is_general_query(request.args[1])
    /\ pc' = "text_returned"
    /\ UNCHANGED <<request, lib_signals, response, cursor, store_matches, call_log>>

ParseVolumeToLiters ==
    /\ pc = "text_called"
    /\ request.function = "parse_volume_to_liters"
    /\ result' = parse_volume_to_liters(request.args[1])
    /\ pc' = "text_returned"
    /\ UNCHANGED <<request, lib_signals, response, cursor, store_matches, call_log>>

ParseQuantityString ==
    /\ pc = "text_called"
    /\ request.function = "parse_volume_to_liters_from_quantity_string"
    /\ result' = parse_volume_to_liters_from_quantity_string(request.args[1])
    /\ pc' = "text_returned"
    /\ UNCHANGED <<request, lib_signals, response, cursor, store_matches, call_log>>

NormalizeText ==
    /\ pc = "text_called"
    /\ request.function = "normalize_text"
    /\ result' = normalize_text(request.args[1])
    /\ pc' = "text_returned"
    /\ UNCHANGED <<request, lib_signals, response, cursor, store_matches, call_log>>

NextText ==
    \/ MatchStoreNames \/ IsGeneralQuery \/ ParseVolumeToLiters \/ ParseQuantityString
    \/ NormalizeText

SpecText == InitText /\ [][NextText]_vars

-----------------------------------------------------------------------------
(* Properties of the single-query endpoint (Spec)                          *)

\* the request has been answered
Responded == pc = "responded"

\* the request fails the validation of match_products
Invalid == str_strip(request.query) = "" \/ request.hasdata_results = <<>>

\* C1: a single-query request with a blank query or an empty candidates list
\* is answered with HTTP 400, never with HTTP 500.
C1_InvalidRequestGets400 ==
    (Responded /\ Invalid) => response.status_code = 400

\* select_best_product ran on the general-query path
OnGeneralPath ==
    /\ Responded
    /\ ~Invalid
    /\ request.service = "product_matcher_service"
    /\ is_general_query(request.query)

\* select_best_product ran on the scored path and selected a candidate
ScoredSelection ==
    /\ Responded
    /\ ~Invalid
    /\ request.service = "simple_product_matcher" \/ ~is_general_query(request.query)
    /\ result.ok
    /\ result.value.selected # None

Relevance(i) == RelevanceOf(request.query, Get(request.hasdata_results[i], "title", ""))
Relevant == {i \in 1..Len(request.hasdata_results) : Relevance(i) > 0}

\* C2: a general query none of whose candidates is relevant is answered with a
\* structured response, selected_product null and reason
\* no_relevant_products_for_general_query, not with an error.
C2_NoRelevantIsStructuredNull ==
    (OnGeneralPath /\ Relevant = {})
        => /\ response.status_code = 200
           /\ response.body.selected_product = None
           /\ response.body.reason = "no_relevant_products_for_general_query"

Priced(p) == "extractedPrice" \in DOMAIN p /\ p.extractedPrice # None
PriceOf(p) == Val(p.extractedPrice)

\* the request's candidate the selection was made from: the selected product
\* is candidate i with its relevance stamped on it
IsCandidate(selected, i) ==
    \A k \in DOMAIN request.hasdata_results[i] :
        k \in DOMAIN selected /\ selected[k] = request.hasdata_results[i][k]

\* C6: on the general-query path a selected candidate has relevance > 0, its
\* price is at most the price of every relevant candidate that carries a
\* price, among relevant candidates of its price none is more relevant, and
\* the result has reason general_query_cheapest and score 0.95. (A selected
\* candidate without a price key is selected only when no relevant candidate
\* is priced below 999.)
C6_GeneralSelectsCheapestRelevant ==
    (OnGeneralPath /\ result.ok /\ result.value.selected # None)
        => LET selected == Val(result.value.selected)
           IN /\ \E i \in Relevant : IsCandidate(selected, i)
              /\ RelevanceOf(request.query, Get(selected, "title", "")) > 0
              /\ \A j \in Relevant :
                    Priced(request.hasdata_results[j])
                        => IF Priced(selected)
                           THEN /\ PriceOf(selected) <= PriceOf(request.hasdata_results[j])
                                /\ PriceOf(selected) = PriceOf(request.hasdata_results[j])
                                      => Relevance(j) <= selected.relevance_score
                           ELSE PriceOf(request.hasdata_results[j]) >= 99900
              /\ result.value.reason = "general_query_cheapest"
              /\ result.value.score = 9500

\* a dearer relevant candidate, or an equally priced less relevant one, comes
\* first in the request and the later one is selected
C6_Witness ==
    /\ OnGeneralPath /\ result.ok /\ result.value.selected # None
    /\ \E i, j \in Relevant :
          /\ i < j
          /\ Priced(request.hasdata_results[i]) /\ Priced(request.hasdata_results[j])
          /\ PriceOf(request.hasdata_results[i]) = PriceOf(request.hasdata_results[j])
          /\ Relevance(i) < Relevance(j)
          /\ IsCandidate(Val(result.value.selected), j)
    /\ \E i \in 1..Len(request.hasdata_results) : i \notin Relevant

\* the scored candidates of the result, and those within tie_delta of the top
Feats == result.value.all_candidates
TopScore == CHOOSE t \in {Feats[i].score : i \in DOMAIN Feats} :
               \A i \in DOMAIN Feats : Feats[i].score <= t
Near == {i \in DOMAIN Feats : TopScore - Feats[i].score <= request.tie_delta}
NearWithPpl == {i \in Near : Feats[i].price_per_liter # None}
NearWithPrice == {i \in Near : Feats[i].price # None}
Ppl(i) == Val(Feats[i].price_per_liter)
PplLess(i, j) == FracLess(Ppl(i)[1], Ppl(i)[2], Ppl(j)[1], Ppl(j)[2])
Selected(i) == Feats[i].candidate = Val(result.value.selected)

\* C7: on the scored path, with two or more near-top candidates of which some
\* have a price per liter, the selected one is a near-top candidate of the
\* least price per liter and the reason is tie_broken_by_price_per_liter.
C7_TieBrokenByPricePerLiter ==
    (ScoredSelection /\ Cardinality(Near) >= 2 /\ NearWithPpl # {})
        => /\ result.value.reason = "tie_broken_by_price_per_liter"
           /\ \E i \in NearWithPpl :
                 /\ Selected(i)
                 /\ \A j \in NearWithPpl : ~PplLess(j, i)

\* two candidates of equal score and different prices per liter, the dearer
\* per liter first in the request, and the cheaper per liter selected
C7_Witness ==
    /\ ScoredSelection
    /\ \E i, j \in NearWithPpl :
          /\ Feats[i].score = Feats[j].score
          /\ PplLess(j, i)
          /\ Selected(j) /\ ~Selected(i)
          /\ \E a, b \in DOMAIN request.hasdata_results :
                /\ a < b
                /\ request.hasdata_results[a] = Feats[i].candidate
                /\ request.hasdata_results[b] = Feats[j].candidate
    /\ result.value.reason = "tie_broken_by_price_per_liter"

\* C8: on the scored path the reason is top_single exactly when one candidate
\* lies within tie_delta of the top score, and then the selected candidate
\* has the top score.
C8_TopSingleIffOneNearTop ==
    ScoredSelection
        => /\ result.value.reason = "top_single" <=> Cardinality(Near) = 1
           /\ Cardinality(Near) = 1
                 => \E i \in Near : Selected(i) /\ Feats[i].score = TopScore

\* several candidates, one of them alone near the top and not the first of
\* the request, selected with reason top_single
C8_Witness ==
    /\ ScoredSelection
    /\ Len(request.hasdata_results) >= 2
    /\ Cardinality(Near) = 1
    /\ result.value.reason = "top_single"
    /\ request.hasdata_results[1] # Val(result.value.selected)
    /\ \E i \in DOMAIN Feats : Feats[i].score < TopScore

\* C9: on the scored path, with two or more near-top candidates none of which
\* has a price per liter: if some have a price the selected one is a near-top
\* candidate of the least price and the reason is tie_broken_by_abs_price;
\* if none has a price the top-ranked candidate is kept with reason
\* tie_kept_top.
C9_TieBrokenByPriceOrKept ==
    (ScoredSelection /\ Cardinality(Near) >= 2 /\ NearWithPpl = {})
        => IF NearWithPrice # {}
           THEN /\ result.value.reason = "tie_broken_by_abs_price"
                /\ \E i \in NearWithPrice :
                      /\ Selected(i)
                      /\ \A j \in NearWithPrice :
                            Val(Feats[i].price) <= Val(Feats[j].price)
           ELSE /\ result.value.reason = "tie_kept_top"
                /\ Selected(1)
                /\ Feats[1].score = TopScore

\* a near-top candidate of a lower price and a lower score is selected over
\* the top one, a third near-top candidate having no price
C9_Witness ==
    /\ ScoredSelection /\ Cardinality(Near) >= 3 /\ NearWithPpl = {}
    /\ result.value.reason = "tie_broken_by_abs_price"
    /\ \E i, j \in NearWithPrice :
          /\ Selected(i)
          /\ Feats[i].score < Feats[j].score
          /\ Val(Feats[i].price) < Val(Feats[j].price)
    /\ Near # NearWithPrice

\* two near-top candidates without a price, the top-ranked one kept
C9_KeptTopReached ==
    /\ ScoredSelection /\ Cardinality(Near) >= 2 /\ NearWithPrice = {}
    /\ result.value.reason = "tie_kept_top"

\* C10: whenever select_best_product returns a selected product, on either
\* path, confidence_ok is true exactly when the score is at least the
\* conf_threshold of the request.
C10_ConfidenceOkIffScoreMeetsThreshold ==
    (Responded /\ ~Invalid /\ result.ok /\ result.value.selected # None)
        => (result.value.confidence_ok <=> result.value.score >= request.conf_threshold)

-----------------------------------------------------------------------------
(* Properties of select_by_priority_conditions (SpecPriority)              *)

PriorityReturned == pc = "priority_returned"

TitleOf(p) == Get(p, "title", "")
HasItem(p) == title_contains_token(str_lower(TitleOf(p)), request.item)
HasBrand(p) == title_contains_token(str_lower(TitleOf(p)), request.brand)
HasQuantity(p) == title_matches_quantity_liters(TitleOf(p), request.quantity_liters)
FullMatch(p) == HasItem(p) /\ HasBrand(p) /\ HasQuantity(p)
AllPresent == request.item # None /\ request.brand # None /\ request.quantity_liters # None
Products == {request.store_products[i] : i \in 1..Len(request.store_products)}

\* C3: with item, brand and quantity present, if some candidate's title matches
\* item and brand and quantity, a candidate that is returned matches all
\* three; one that matches the item alone is not returned.
C3_FullMatchReturned ==
    (PriorityReturned /\ AllPresent /\ \E p \in Products : FullMatch(p))
        => (result = None \/ FullMatch(Val(result)))

\* what the selector does guarantee: if some candidate with a numeric price
\* matches all three, the returned candidate matches all three.
PricedFullMatchReturned ==
    (PriorityReturned /\ AllPresent /\ \E p \in Products : FullMatch(p) /\ Priced(p))
        => (result # None /\ FullMatch(Val(result)))

\* a priced full match is returned although a cheaper candidate that matches
\* the item alone is in the list before it
PricedFullMatchReached ==
    /\ PriorityReturned /\ AllPresent
    /\ result # None /\ FullMatch(Val(result))
    /\ \E i, j \in 1..Len(request.store_products) :
          /\ i < j
          /\ request.store_products[j] = Val(result)
          /\ HasItem(request.store_products[i])
          /\ ~HasBrand(request.store_products[i])
          /\ ~HasQuantity(request.store_products[i])
          /\ Priced(request.store_products[i])
          /\ PriceOf(request.store_products[i]) < PriceOf(Val(result))

Case == PriorityCase(request.item, request.brand, request.quantity_liters)
Tier(k) == TierFilter(Case, k, request.store_products, request.item, request.brand,
                      request.quantity_liters)
Members(q) == {q[i] : i \in 1..Len(q)}
\* p is a priced member of q, no priced member of q being cheaper
LowestPricedOf(p, q) ==
    /\ p \in Members(q)
    /\ Priced(p)
    /\ \A m \in Members(q) : Priced(m) => PriceOf(p) <= PriceOf(m)
NonEmptyTiers == {k \in 1..TierCount(Case) : Tier(k) # <<>>}
PricedTiers == {k \in 1..TierCount(Case) : \E m \in Members(Tier(k)) : Priced(m)}
First(S) == CHOOSE k \in S : \A j \in S : k <= j

\* C4: a candidate that is returned is the lowest-priced member of the first
\* filter whose result is not empty, and the cheapest overall is returned only
\* when every filter's result is empty.
C4_FirstNonEmptyTierLowestPriced ==
    (PriorityReturned /\ Case # 0 /\ result # None)
        => IF NonEmptyTiers # {}
           THEN LowestPricedOf(Val(result), Tier(First(NonEmptyTiers)))
           ELSE LowestPricedOf(Val(result), request.store_products)

\* what the selector does guarantee: the returned candidate is the
\* lowest-priced member of the first filter whose result holds a candidate
\* with a numeric price; when no filter's
\* result holds one, it is the cheapest priced candidate overall, or nothing
\* when no candidate has a numeric price.
FirstPricedTierLowestPriced ==
    (PriorityReturned /\ Case # 0)
        => IF PricedTiers # {}
           THEN result # None /\ LowestPricedOf(Val(result), Tier(First(PricedTiers)))
           ELSE IF \E p \in Products : Priced(p)
                THEN result # None /\ LowestPricedOf(Val(result), request.store_products)
                ELSE result = None

\* the first filter whose result is not empty holds two priced members, the
\* dearer first, a later filter holds a cheaper candidate still, and the
\* cheaper member of the first filter is returned
FirstPricedTierReached ==
    /\ PriorityReturned /\ Case # 0
    /\ NonEmptyTiers # {} /\ PricedTiers # {}
    /\ result # None
    /\ \E i, j \in 1..Len(Tier(First(PricedTiers))) :
          /\ i < j
          /\ Priced(Tier(First(PricedTiers))[i])
          /\ Tier(First(PricedTiers))[j] = Val(result)
          /\ PriceOf(Tier(First(PricedTiers))[i]) > PriceOf(Val(result))
    /\ \E p \in Products :
          /\ p \notin Members(Tier(First(PricedTiers)))
          /\ Priced(p)
          /\ PriceOf(p) < PriceOf(Val(result))

-----------------------------------------------------------------------------
(* Properties of the per-store batch endpoint (SpecStores)                 *)

ItemComp == Component(request.llm_components, "item")
BrandComp == Component(request.llm_components, "brand")
QuantityLiters ==
    parse_volume_to_liters_from_quantity_string(Component(request.llm_components, "quantity"))
\* some component of the extractor's answer is available
Applicable == Truthy(ItemComp) \/ Truthy(BrandComp) \/ QuantityLiters # None

PriorityReasons ==
    {"llm_priority_selection_highest_priority", "llm_priority_selection_second_case",
     "llm_priority_selection_third_case", "llm_priority_selection_fourth_case"}

InLoop == pc = "stores_loop" /\ call_log # <<>>
LastPass == call_log[Len(call_log)]
PriorityFirst(calls) ==
    calls # <<>> /\ calls[1].function = "select_by_priority_conditions"

\* C5: in every pass of the loop for a mapped store, the priority selector is
\* called first whenever a component is available; when it returns a
\* candidate, that candidate is the store's entry with a reason
\* llm_priority_selection_<case> and select_best_product is not called in the
\* pass; select_best_product is called only after the priority selector
\* returned nothing, or when no component is available.
C5_PriorityBeforeScored ==
    InLoop
        => /\ Applicable <=> PriorityFirst(LastPass.calls)
           /\ \A j \in 1..Len(LastPass.calls) :
                 /\ LastPass.calls[j].function = "select_by_priority_conditions" => j = 1
                 /\ LastPass.calls[j].function = "select_best_product"
                       => \/ ~Applicable
                          \/ /\ j > 1
                             /\ PriorityFirst(LastPass.calls)
                             /\ LastPass.calls[1].returned = None
           /\ (PriorityFirst(LastPass.calls) /\ LastPass.calls[1].returned # None)
                 => /\ Len(LastPass.calls) = 1
                    /\ LastPass.store \in DOMAIN store_matches
                    /\ store_matches[LastPass.store].product
                          = Val(LastPass.calls[1].returned)
                    /\ store_matches[LastPass.store].reason \in PriorityReasons

\* one pass in which the priority selector returned nothing and
\* select_best_product ran after it, then one in which the priority selector
\* returned the candidate that became the store's entry
C5_Witness ==
    /\ InLoop
    /\ Len(call_log) = 2
    /\ PriorityFirst(call_log[1].calls)
    /\ call_log[1].calls[1].returned = None
    /\ Len(call_log[1].calls) >= 2
    /\ call_log[1].calls[2].function = "select_best_product"
    /\ PriorityFirst(call_log[2].calls)
    /\ call_log[2].calls[1].returned # None
    /\ store_matches[call_log[2].store].product = Val(call_log[2].calls[1].returned)

-----------------------------------------------------------------------------
(* Properties of the weighted scorer (SpecScore)                           *)

ScoreReturned == pc = "score_returned"

\* the weights dict the scorer is called with
ConfiguredWeights ==
    WeightsOr(request.weights,
              IF request.service = "product_matcher_service" THEN DefaultWeights
              ELSE SimpleDefaultWeights)

RECURSIVE SumOver(_, _)
SumOver(f, keys) ==
    IF keys = {} THEN 0
    ELSE LET k == CHOOSE x \in keys : TRUE IN f[k] + SumOver(f, keys \ {k})

\* the sum of the weights of the dict, a signal of 1.0 being 100
SumOfConfigured == 100 * SumOver(ConfiguredWeights, DOMAIN ConfiguredWeights)

\* the sum of the weights the service multiplies the signals by: for each of
\* its keys the weight of the dict, or the default of the key when the dict
\* lacks it, and the 0.10 of the TF-IDF cosine in the simplified service
SumInEffect ==
    IF request.service = "product_matcher_service"
    THEN 100 * (Get(ConfiguredWeights, "token_set", 50) + Get(ConfiguredWeights, "embed", 30)
                + Get(ConfiguredWeights, "partial", 15) + Get(ConfiguredWeights, "brand", 5))
    ELSE 100 * (Get(ConfiguredWeights, "token_set", 50) + Get(ConfiguredWeights, "partial", 25)
                + Get(ConfiguredWeights, "brand", 15) + 10)

-----------------------------------------------------------------------------
(* Failures of one store in the per-store batch endpoint (SpecStores)      *)

BatchResponded ==
    pc = "responded" /\ request.query # "" /\ request.hasdata_results # <<>>

\* the request as it was posted: no candidate of the model is posted with a
\* relevance_score, so a relevance_score is one that a pass has set
AsPosted(product) == [k \in DOMAIN product \ {"relevance_score"} |-> product[k]]
PostedRequest ==
    [request EXCEPT !.hasdata_results =
        [i \in 1..Len(request.hasdata_results) |-> AsPosted(request.hasdata_results[i])]]

\* the pass of the loop for nearby_store, taken on its own on the request as
\* it was posted
PassAlone(nearby_store) ==
    IF MappedStore(request.hasdata_results, nearby_store) = None
    THEN Pass(None, <<>>, None)
    ELSE StorePass(PostedRequest, lib_signals,
                   Val(MappedStore(request.hasdata_results, nearby_store)))

\* store_matches of the response has for nearby_store what pass left
EntryAsLeftBy(nearby_store, pass) ==
    IF pass.match = None
    THEN nearby_store \notin DOMAIN response.body.store_matches
    ELSE /\ nearby_store \in DOMAIN response.body.store_matches
         /\ response.body.store_matches[nearby_store] = Val(pass.match)

\* C12: an exception in the pass of one store leaves the batch with its
\* response; every store whose pass raised nothing has the entry the pass
\* gives on its own, and a store whose pass raised is not in store_matches.
C12_FailingStoreOmittedOthersUntouched ==
    BatchResponded
        => /\ response.status_code = 200
           /\ \A k \in 1..Len(request.nearby_stores) :
                 IF PassAlone(request.nearby_stores[k]).raised = None
                 THEN EntryAsLeftBy(request.nearby_stores[k],
                                    PassAlone(request.nearby_stores[k]))
                 ELSE request.nearby_stores[k] \notin DOMAIN response.body.store_matches

\* the part of C12 that holds: the batch has its response, a store whose pass
\* raised nothing has the entry of its pass, and a store whose pass raised
\* before it stored an entry is not in store_matches
FailureBeforeEntryOmitsStore ==
    BatchResponded
        => /\ response.status_code = 200
           /\ \A k \in 1..Len(request.nearby_stores) :
                 EntryAsLeftBy(request.nearby_stores[k],
                               PassAlone(request.nearby_stores[k]))

\* a batch where the pass of one store raised before it stored an entry and
\* another store has its entry
FailureBeforeEntryReached ==
    /\ BatchResponded
    /\ \E j, k \in 1..Len(call_log) :
          /\ call_log[j].raised # None
          /\ call_log[j].store \notin DOMAIN response.body.store_matches
          /\ call_log[k].raised = None
          /\ call_log[k].store \in DOMAIN response.body.store_matches

-----------------------------------------------------------------------------
(* The store mapping of the per-store batch endpoint (SpecStores)          *)

\* the loop over nearby_stores is done
StoresLooped == pc = "stores_loop" /\ cursor > Len(request.nearby_stores)

\* store_mapping, as the passes of the loop used it: the nearby stores that
\* are mapped, and the HasData store of each
MappedNearby == {call_log[j].store : j \in 1..Len(call_log)}
MappedTo(nearby_store) ==
    call_log[CHOOSE j \in 1..Len(call_log) : call_log[j].store = nearby_store].hasdata_store

\* the HasData stores that match nearby_store, as places in the order of the
\* groups
MatchingGroups(nearby_store) ==
    {k \in 1..Len(StoreKeys(request.hasdata_results)) :
        match_store_names(StoreKeys(request.hasdata_results)[k], nearby_store)}

\* each mapped nearby store is mapped to the first group that matches it, and
\* a nearby store that no group matches is not mapped
FirstMatchWins ==
    StoresLooped
        => \A k \in 1..Len(request.nearby_stores) :
              LET nearby_store == request.nearby_stores[k]
              IN IF MatchingGroups(nearby_store) = {}
                 THEN nearby_store \notin MappedNearby
                 ELSE /\ nearby_store \in MappedNearby
                      /\ \E g \in MatchingGroups(nearby_store) :
                            /\ MappedTo(nearby_store) = StoreKeys(request.hasdata_results)[g]
                            /\ \A h \in MatchingGroups(nearby_store) : g <= h

\* no two nearby stores are mapped to the same group
OneToOne ==
    \A a, b \in MappedNearby : a # b => MappedTo(a) # MappedTo(b)

\* C13: the store mapping is one-to-one, no two distinct nearby stores being
\* mapped to the same group; each nearby store is mapped to the first group,
\* in the order of the groups, whose name matches it, and a nearby store that
\* no group matches is not mapped.
C13_StoreMappingOneToOneFirstMatch ==
    StoresLooped => OneToOne /\ FirstMatchWins

\* a nearby store that two groups match, mapped to the first of them
FirstOfTwoGroupsReached ==
    /\ StoresLooped
    /\ \E k \in 1..Len(request.nearby_stores) :
          /\ Cardinality(MatchingGroups(request.nearby_stores[k])) = 2
          /\ MappedTo(request.nearby_stores[k]) = StoreKeys(request.hasdata_results)[1]

-----------------------------------------------------------------------------
(* Properties of the store name matcher (SpecText)                         *)

Returned(function) == pc = "text_returned" /\ request.function = function

\* the name, in lower case and without the blanks around it
Folded(name) == str_strip(str_lower(name))

\* the name contains an entry of the list of major retailers
NamesMajorStore(name) ==
    \E k \in 1..Len(MAJOR_STORES) : str_in(MAJOR_STORES[k], Folded(name))

\* the two names have a word of more than one character in common
ShareWord(a, b) ==
    \E i \in 1..Len(str_split(Folded(a))), j \in 1..Len(str_split(Folded(b))) :
        /\ str_split(Folded(a))[i] = str_split(Folded(b))[j]
        /\ Len(str_split(Folded(a))[i]) > 1

\* C14: match_store_names(a, b) is true exactly when a and b are equal but
\* for case and surrounding blanks, or one of them contains an entry of the
\* major-retailer list and they share a word of more than one character; two
\* names without a major-retailer entry match only when they are equal but
\* for case.
C14_MatchIffEqualOrMajorSharingWord ==
    Returned("match_store_names")
        => LET a == request.args[1]
               b == request.args[2]
           IN /\ result <=> \/ Folded(a) = Folded(b)
                            \/ (NamesMajorStore(a) \/ NamesMajorStore(b)) /\ ShareWord(a, b)
              /\ (~NamesMajorStore(a) /\ ~NamesMajorStore(b) /\ result)
                    => Folded(a) = Folded(b)

\* two different names match because one names a major store and they share
\* a word
C14_Witness ==
    /\ Returned("match_store_names")
    /\ result
    /\ Folded(request.args[1]) # Folded(request.args[2])
    /\ NamesMajorStore(request.args[1]) /\ ~NamesMajorStore(request.args[2])

-----------------------------------------------------------------------------
(* The reason codes of the per-store batch endpoint (SpecStores)           *)

\* the reasons select_best_product gives with a selection
InnerReasons ==
    {"top_single", "tie_broken_by_price_per_liter", "tie_broken_by_abs_price",
     "tie_kept_top", "general_query_cheapest"}

LowConfidenceReasons == {"low_confidence_" \o r : r \in InnerReasons}

\* the reason of the entry of store_matches for the store, "" without an entry
ReasonFor(store) ==
    IF store \in DOMAIN store_matches THEN store_matches[store].reason ELSE ""

\* the pass called select_by_priority_conditions and it returned a product
PriorityPicked(calls) == PriorityFirst(calls) /\ calls[1].returned # None

\* the places of the calls of select_best_product among the calls of a pass
ClassicCalls(calls) ==
    {j \in 1..Len(calls) : calls[j].function = "select_best_product"}

\* the pass called select_best_product twice and the second call selected
LowSelected(calls) ==
    /\ Cardinality(ClassicCalls(calls)) = 2
    /\ calls[Len(calls)].function = "select_best_product"
    /\ calls[Len(calls)].returned.ok
    /\ SelectedTruthy(calls[Len(calls)].returned)

\* the pass came to find_cheapest_relevant_product and it returned a product
CheapestFound(calls) ==
    /\ calls # <<>>
    /\ calls[Len(calls)].function = "find_cheapest_relevant_product"
    /\ calls[Len(calls)].returned.ok
    /\ calls[Len(calls)].returned.value # None

CheapestFallbackReached ==
    /\ pc = "responded" /\ response.status_code = 200
    /\ \E a, b \in DOMAIN response.body.store_matches :
          /\ response.body.store_matches[a].reason = "cheapest_fallback"
          /\ response.body.store_matches[b].reason \in PriorityReasons

\* the responses that carry the priority reason of the case
PriorityCaseReached(case) ==
    /\ pc = "responded" /\ response.status_code = 200
    /\ \E store \in DOMAIN response.body.store_matches :
          response.body.store_matches[store].reason = "llm_priority_selection_" \o case

HighestPriorityReached == PriorityCaseReached("highest_priority")
SecondCaseReached == PriorityCaseReached("second_case")
ThirdCaseReached == PriorityCaseReached("third_case")
FourthCaseReached == PriorityCaseReached("fourth_case")

-----------------------------------------------------------------------------
(* Properties of the query classifier (SpecText)                           *)

\* the words of the query, in lower case
QueryWords(query) == str_split(Folded(query))

\* the rule of the list applies to the query
Applies(rule, query) ==
    CASE rule = 1 -> QueryWords(query) = <<>>
      [] rule = 2 -> \E k \in 1..Len(specific_patterns) :
                        re_search(specific_patterns[k], Folded(query))
      [] rule = 3 -> Len(QueryWords(query)) = 1
      [] rule = 4 -> Cardinality({i \in 1..Len(QueryWords(query)) :
                                    /\ Len(QueryWords(query)[i]) > 2
                                    /\ QueryWords(query)[i] \notin StopWords}) <= 2
      [] rule = 5 -> /\ \E term \in basic_categories : str_in(term, Folded(query))
                     /\ Len(QueryWords(query)) <= 3
      [] rule = 6 -> \E i \in 1..Len(query) : IsDigit(Ch(query, i))
      [] rule = 7 -> \E i \in 1..Len(QueryWords(query)) :
                        QueryWords(query)[i] \in descriptive_words
      [] rule = 8 -> TRUE

\* what the rule of the list says of a query it applies to: general or not
Verdict(rule, query) ==
    CASE rule \in {1, 3, 4, 5} -> TRUE
      [] rule \in {2, 6, 7} -> FALSE
      [] rule = 8 -> Len(QueryWords(query)) <= 3

\* the rules that apply to the query and that no rule before them applies to
FirstApplicable(query) ==
    {k \in 1..8 : Applies(k, query) /\ \A j \in 1..(k - 1) : ~Applies(j, query)}

\* C16: is_general_query returns what the first rule of the list that applies
\* to the query says, whatever the rules after it say; the query "milk" is
\* general.
C16_FirstApplicableRuleDecides ==
    Returned("is_general_query")
        => /\ \A k \in FirstApplicable(request.args[1]) :
                 result = Verdict(k, request.args[1])
           /\ request.args[1] = "milk" => result = TRUE

\* a query the basic-category rule decides as general, that has a number
\* and a descriptive word, which the later rules take for specific
C16_Witness ==
    /\ Returned("is_general_query")
    /\ FirstApplicable(request.args[1]) = {5}
    /\ Applies(6, request.args[1]) /\ Applies(7, request.args[1])
    /\ result = TRUE

-----------------------------------------------------------------------------
(* The order of the candidates (Spec, SpecPriority)                        *)

\* the list in the order f, a permutation of its places
Permuted(seq, f) == [i \in 1..Len(seq) |-> seq[f[i]]]

\* what a call of select_best_product selects: the candidate, the score and
\* the reason, or the exception
Chosen(outcome) ==
    IF outcome.ok
    THEN <<Get(outcome.value, "selected", None), Get(outcome.value, "score", None),
           Get(outcome.value, "reason", None)>>
    ELSE <<outcome.error>>

\* select_best_product selects the same for the candidates of the request in
\* the order f
SameSelectionIn(f) ==
    Chosen(select_best_product(request.query, Permuted(request.hasdata_results, f),
                               Permuted(lib_signals, f), request.weights,
                               request.conf_threshold, request.tie_delta))
        = Chosen(result)

\* select_by_priority_conditions selects the same for the products of the
\* request in the order f
SamePriorityPickIn(f) ==
    select_by_priority_conditions(Permuted(request.store_products, f), request.item,
                                  request.brand, request.quantity_liters)
        = result

\* C17: the selection does not depend on the order of the candidates: for
\* every order of the same candidates select_best_product, on its scored and
\* on its general path, selects the same candidate with the same score and
\* reason, and select_by_priority_conditions selects the same product.
C17_SelectionIndependentOfOrder ==
    /\ (pc = "responded" /\ request.service = "product_matcher_service" /\ ~Rejected(request))
          => \A f \in Permutations(1..Len(request.hasdata_results)) : SameSelectionIn(f)
    /\ pc = "priority_returned"
          => \A f \in Permutations(1..Len(request.store_products)) : SamePriorityPickIn(f)

-----------------------------------------------------------------------------
(* The component extractor in the per-store batch endpoint (SpecStores)    *)

\* the handler has called the extractor
Extracted ==
    pc \in {"stores_loop", "responded"} /\ request.query # "" /\ request.hasdata_results # <<>>

\* the remote call did not come to a decoded response body
RemoteFailed ==
    ~request.remote.api_key \/ request.remote.urlopen # "ok" \/ ~request.remote.payload.ok

\* a record of the three components, each None or a text that is not blank
NoBlanks(llm_components) ==
    /\ DOMAIN Val(llm_components) = {"brand", "item", "quantity"}
    /\ \A key \in {"brand", "item", "quantity"} :
          \/ Val(llm_components)[key] = None
          \/ str_strip(Val(Val(llm_components)[key])) # ""

\* C18: whatever the remote call comes to, call_openai_extract_components
\* does not raise, so the batch request is not failed by it; it returns None
\* or a record {brand, item, quantity} whose fields are None or non-blank
\* texts, None whenever the remote call failed; with None the passes of the
\* batch make no priority selection and go the scored path.
C18_ExtractorFailsClosed ==
    Extracted
        => /\ pc = "responded" => response.status_code = 200
           /\ pc = "stores_loop"
                 => /\ request.llm_components = None \/ NoBlanks(request.llm_components)
                    /\ RemoteFailed => request.llm_components = None
                    /\ request.llm_components = None
                          => \A k \in 1..Len(call_log) :
                                /\ ~PriorityFirst(call_log[k].calls)
                                /\ call_log[k].calls # <<>>
                                      => call_log[k].calls[1].function = "select_best_product"

\* the remote call timed out and the batch responded with a store matched by
\* select_best_product
C18_Witness ==
    /\ BatchResponded
    /\ request.remote.urlopen = "TimeoutError"
    /\ response.status_code = 200
    /\ store_matches # <<>>
    /\ \E k \in 1..Len(call_log) :
          /\ call_log[k].calls # <<>>
          /\ call_log[k].calls[1].function = "select_best_product"
          /\ call_log[k].store \in DOMAIN store_matches

-----------------------------------------------------------------------------
(* Properties of the unit parser (SpecText)                                *)

\* the text has a number followed by a unit of the k-th pattern
Occurs(k, t) == re_search(Cat(<<NumberPattern, VolumePatterns[k][1]>>), t)

\* the places, in the order the patterns are tried, of the patterns that
\* occur in the text
Occurring(t) == {k \in 1..Len(VolumePatterns) : Occurs(k, t)}

\* the conversion by the k-th pattern of its leftmost occurrence in the text
ConversionBy(k, t) ==
    Some(float_of(Val(SearchNumber(VolumePatterns[k][1], t))) * VolumePatterns[k][2])

\* texts with occurrences of two patterns, and the liters of the occurrence
\* whose pattern is tried first
EarlierPatternExamples ==
    { <<"16 oz 1 gal", 10 * GallonFactor>>, <<"1 gal 16 oz", 10 * GallonFactor>>,
      <<"500 ml 2 l", 20 * LiterFactor>>, <<"2 l 500 ml", 20 * LiterFactor>>,
      <<"1 pt 1 qt", 10 * QuartFactor>>, <<"1 qt 2 l", 20 * LiterFactor>>,
      <<"2 Liters 1 GALLON", 10 * GallonFactor>> }

\* C19: parse_volume_to_liters returns None exactly when no pattern occurs in
\* the text; otherwise it returns the conversion by the first, in the order
\* gal, oz, liter, ml, quart, pint, no-space gallon, of the patterns that
\* occur, wherever the occurrences are in the text; and the quantity-string
\* entry point returns, for a non-empty string, what parse_volume_to_liters
\* returns for it.
C19_FirstPatternInOrderDecides ==
    /\ Returned("parse_volume_to_liters")
          => LET t == str_lower(request.args[1])
             IN /\ result = None <=> Occurring(t) = {}
                /\ \A k \in Occurring(t) :
                      (\A j \in Occurring(t) : k <= j) => result = ConversionBy(k, t)
                /\ \A e \in EarlierPatternExamples :
                      request.args[1] = e[1] => result = Some(e[2])
    /\ Returned("parse_volume_to_liters_from_quantity_string")
          => \/ request.args[1] = None
             \/ Val(request.args[1]) = ""
             \/ result = ParsedVolume(Val(request.args[1]))

\* the ounces come first in the text and the gallon decides
C19_Witness ==
    /\ Returned("parse_volume_to_liters")
    /\ request.args[1] = "16 oz 1 gal"
    /\ Occurring(str_lower(request.args[1])) = {1, 2}
    /\ result = Some(10 * GallonFactor)

\* the quantity-string entry point returned the liters of a quantity
QuantityStringParsed ==
    /\ Returned("parse_volume_to_liters_from_quantity_string")
    /\ request.args[1] = Some("500 ml 2 l")
    /\ result = Some(20 * LiterFactor)

\* texts without a number followed by a unit
NoUnitTexts == {"milk", "", " ", "gal 1", "12 pack", "1 galaxy"}

\* C20: for every unit token of the documented table and every number n,
\* parse_volume_to_liters of the text "n token" returns n times the liters of
\* one unit (500 ml is half a liter), and a text without a number followed by
\* a unit gives None.
C20_EveryListedTokenConverts ==
    Returned("parse_volume_to_liters")
        => /\ \A n \in VolumeNumbers, u \in 1..Len(UnitTokens) :
                 request.args[1] = n[1] \o " " \o UnitTokens[u][1]
                    => result = Some(n[2] * UnitTokens[u][2])
           /\ request.args[1] = "500 ml" => result = Some(5000 * MilliliterFactor)
           /\ request.args[1] \in NoUnitTexts => result = None

\* the same for the tokens the patterns of the code have, that is, without
\* the plural millilitres
ListedTokensButMillilitresConvert ==
    Returned("parse_volume_to_liters")
        => /\ \A n \in VolumeNumbers, u \in 1..Len(UnitTokens) :
                 (/\ request.args[1] = n[1] \o " " \o UnitTokens[u][1]
                  /\ UnitTokens[u][1] # "millilitres")
                    => result = Some(n[2] * UnitTokens[u][2])
           /\ request.args[1] = "500 ml" => result = Some(5000 * MilliliterFactor)
           /\ request.args[1] \in NoUnitTexts => result = None

\* a number of millilitres, in the plural, gave None
MillilitresNotParsed ==
    /\ Returned("parse_volume_to_liters")
    /\ request.args[1] = "500 millilitres"
    /\ result = None

-----------------------------------------------------------------------------
(* Properties of the text normalizer (SpecText)                            *)

\* C21: normalize_text returns a text for every text, the empty text for the
\* empty text, and normalizing what it returned returns the same text.
C21_NormalizeIdempotent ==
    Returned("normalize_text")
        => /\ normalize_text(result) = result
           /\ request.args[1] = "" => result = ""

\* a text with dropped punctuation between blanks was normalized, and what
\* was returned is not the text itself
C21_Witness ==
    /\ Returned("normalize_text")
    /\ request.args[1] = "a / b"
    /\ result = "a b"
    /\ normalize_text(result) = result

\* how often the characters of the alphabet occur in the text
RECURSIVE CountIn(_, _)
CountIn(alphabet, s) ==
    IF s = "" THEN 0
    ELSE (IF IndexIn(alphabet, SubSeq(s, 1, 1)) > 0 THEN 1 ELSE 0) + CountIn(alphabet, Tail(s))

\* C22: what normalize_text returns has only lower-case letters, digits,
\* single blanks and the characters & % . , -, has no blank at its start or
\* end and no two blanks in a row, and has a - for every dash of the input.
C22_OnlyListedCharacters ==
    Returned("normalize_text")
        => /\ \A i \in 1..Len(result) :
                 \/ IndexIn(LowerLetters, Ch(result, i)) > 0
                 \/ IndexIn(DigitChars, Ch(result, i)) > 0
                 \/ IndexIn(" &%.,-", Ch(result, i)) > 0
           /\ str_strip(result) = result
           /\ ~str_in("  ", result)
           /\ CountIn("-", result) = CountIn("-~^", request.args[1])

\* the same with the parentheses among the kept characters
OnlyKeptCharacters ==
    Returned("normalize_text")
        => /\ \A i \in 1..Len(result) :
                 \/ IndexIn(LowerLetters, Ch(result, i)) > 0
                 \/ IndexIn(DigitChars, Ch(result, i)) > 0
                 \/ IndexIn(KeptPunctuation, Ch(result, i)) > 0
           /\ str_strip(result) = result
           /\ ~str_in("  ", result)
           /\ CountIn("-", result) = CountIn("-~^", request.args[1])

\* the parentheses of the input are in the output
ParenthesesKept ==
    /\ Returned("normalize_text")
    /\ request.args[1] = "Milk (2%)"
    /\ result = "milk (2%)"

-----------------------------------------------------------------------------
(* The cases of select_by_priority_conditions with fewer components        *)
(* (SpecPriority, SpecStores)                                              *)

ItemPresent == request.item # None /\ Val(request.item) # ""
BrandPresent == request.brand # None /\ Val(request.brand) # ""
QuantityPresent == request.quantity_liters # None
PresentCount ==
    (IF ItemPresent THEN 1 ELSE 0) + (IF BrandPresent THEN 1 ELSE 0)
    + (IF QuantityPresent THEN 1 ELSE 0)

\* the condition of the one component that is present
OneCondition(p) ==
    IF ItemPresent THEN HasItem(p) ELSE IF BrandPresent THEN HasBrand(p) ELSE HasQuantity(p)

\* the candidate returned is a priced candidate of the set, none of the set
\* being cheaper
CheapestOfSet(S) ==
    /\ result # None
    /\ Val(result) \in S
    /\ \A m \in S : PriceOf(Val(result)) <= PriceOf(m)

\* the candidate of the single filter if it has a priced one, else the
\* cheapest priced candidate overall, else None
SingleTierThenCheapest(S) ==
    IF S # {} THEN CheapestOfSet(S)
    ELSE IF \E p \in Products : Priced(p)
    THEN CheapestOfSet({p \in Products : Priced(p)})
    ELSE result = None

\* C23: with no component present select_by_priority_conditions returns None
\* whatever the candidates are; with exactly one present it returns the
\* cheapest of the candidates that meet the condition of that component, and
\* the cheapest overall when there is none.
C23_NoneOrSingleCondition ==
    PriorityReturned
        => /\ PresentCount = 0 => result = None
           /\ PresentCount = 1
                 => SingleTierThenCheapest({p \in Products : OneCondition(p) /\ Priced(p)})

\* only the brand is present, and the candidate returned has the brand
\* although a cheaper candidate is in the list
C23_Witness ==
    /\ PriorityReturned
    /\ PresentCount = 1 /\ BrandPresent
    /\ result # None
    /\ HasBrand(Val(result))
    /\ \E p \in Products : Priced(p) /\ ~HasBrand(p) /\ PriceOf(p) < PriceOf(Val(result))

\* nothing is present, the list has priced candidates and None is returned
NothingPresentReached ==
    /\ PriorityReturned
    /\ PresentCount = 0
    /\ request.item = Some("")
    /\ \E p \in Products : Priced(p)
    /\ result = None


-----------------------------------------------------------------------------
(* The example of the service: "whole milk 1 gallon" over four milk       *)
(* candidates, posted to /match-products with the defaults of the request  *)
(* model (SpecExample)                                                     *)

ExampleProduct(position, title, price, source) ==
    [position |-> position, title |-> title, extractedPrice |-> Some(price),
     source |-> source]

example_results ==
    << ExampleProduct(1, "H-E-B Whole Milk", 282, "H-E-B"),
       ExampleProduct(2, "Great Value Whole Milk with Vitamin D 1 gal", 257, "Walmart"),
       ExampleProduct(3, "Good & Gather Whole Milk 1 gal", 269, "Target"),
       ExampleProduct(4, "Lucerne Whole Milk 1 gallon", 319, "Albertsons") >>

ExampleQuery == "whole milk 1 gallon"

\* the words of a normalized text as a set
WordSet(s) == {str_split(s)[i] : i \in 1..Len(str_split(s))}

\* what the libraries may give for the query and a title: when the title has
\* every word of the query both token sets differ by nothing on the query's
\* side and token_set_ratio is 100, and when the query is a substring of the
\* title partial_ratio is 100; every other output is open
LibraryOutputs(query, title) ==
    { Signal(token_set, partial, embed) :
        token_set \in IF WordSet(normalize_text(query)) \subseteq WordSet(normalize_text(title))
                      THEN {100} ELSE {0, 100},
        partial \in IF str_in(normalize_text(query), normalize_text(title))
                    THEN {100} ELSE {0, 100},
        embed \in {0, 100} }

\* the example request has arrived with the defaults of MatchRequest
InitExample ==
    /\ pc = "received"
    /\ request = [service |-> "product_matcher_service",
                  query |-> ExampleQuery,
                  hasdata_results |-> example_results,
                  weights |-> None,
                  conf_threshold |-> 5500,
                  tie_delta |-> 500]
    /\ lib_signals \in [1..Len(example_results) -> UNION {LibraryOutputs(ExampleQuery, example_results[i].title) : i \in 1..Len(example_results)}]
    /\ \A i \in 1..Len(example_results) :
          lib_signals[i] \in LibraryOutputs(ExampleQuery, example_results[i].title)
    /\ result = <<>>
    /\ response = <<>>
    /\ cursor = 0
    /\ store_matches = <<>>
    /\ call_log = <<>>

NextExample == MatchProducts \/ Done

SpecExample == InitExample /\ [][NextExample]_vars

\* the example request has been answered
ExampleAnswered ==
    /\ Responded
    /\ request.query = ExampleQuery
    /\ request.hasdata_results = example_results

\* C24: the example query is specific and takes the scored path; the result
\* has a selected product whose title contains "Whole Milk" and
\* confidence_ok true: the top score is at least 0.65 and the selected score
\* at least the top score less tie_delta.
C24_ExampleSelectsWholeMilkConfidently ==
    ExampleAnswered
        => /\ ~is_general_query(request.query)
           /\ result.ok
           /\ result.value.reason \in {"top_single", "tie_broken_by_price_per_liter",
                                       "tie_broken_by_abs_price", "tie_kept_top"}
           /\ result.value.selected # None
           /\ str_in("Whole Milk", Val(result.value.selected).title)
           /\ result.value.confidence_ok
           /\ TopScore >= 6500
           /\ result.value.score >= TopScore - request.tie_delta
           /\ response.status_code = 200

\* the example is answered with a candidate that scores under the top one
C24_Witness ==
    /\ ExampleAnswered
    /\ result.ok
    /\ result.value.selected # None
    /\ result.value.confidence_ok
    /\ result.value.score < TopScore
    /\ Val(result.value.selected).title # "Lucerne Whole Milk 1 gallon"


-----------------------------------------------------------------------------
(* exact_match of the per-store batch endpoint (SpecStores)                *)

\* the product matches the component of the extractor's answer
MatchesItem(p) == title_contains_token(str_lower(TitleOf(p)), ItemComp)
MatchesBrand(p) == title_contains_token(str_lower(TitleOf(p)), BrandComp)
MatchesQuantity(p) == title_matches_quantity_liters(TitleOf(p), QuantityLiters)
MatchesAllComponents(p) == MatchesItem(p) /\ MatchesBrand(p) /\ MatchesQuantity(p)

\* the stores whose entry has exact_match true
ExactMatches == {store \in DOMAIN store_matches : store_matches[store].exact_match}

\* C25: exact_match is true for a store only if the product returned for the
\* store matches all extracted components: its title contains the item,
\* contains the brand and carries a quantity within tolerance.
C25_ExactMatchOnlyWhenAllComponentsMatch ==
    \A store \in ExactMatches : MatchesAllComponents(store_matches[store].product)

\* exact_match is true only when all three components are present and the
\* priority selection returned the product, from whichever tier
ExactMatchOnlyWhenAllComponentsPresent ==
    \A store \in ExactMatches :
        /\ Truthy(ItemComp) /\ Truthy(BrandComp) /\ QuantityLiters # None
        /\ store_matches[store].reason = "llm_priority_selection_highest_priority"

\* an entry with exact_match true whose product lacks the brand
ExactMatchWithoutBrandReached ==
    \E store \in ExactMatches :
        /\ MatchesItem(store_matches[store].product)
        /\ ~MatchesBrand(store_matches[store].product)

\* an entry with exact_match true whose product matches all components
ExactMatchOfFullMatchReached ==
    \E store \in ExactMatches : MatchesAllComponents(store_matches[store].product)


-----------------------------------------------------------------------------
(* The counters of the per-store batch response (SpecStores)               *)

\* the batch request has its 200 response
BatchAnswered == pc = "responded" /\ response.status_code = 200

NearbyNames == {request.nearby_stores[i] : i \in 1..Len(request.nearby_stores)}
NeedingAi ==
    {response.body.stores_needing_ai[i] : i \in 1..Len(response.body.stores_needing_ai)}

\* every name of nearby_stores is a key of store_matches or in
\* stores_needing_ai, and not both
NamesPartitioned ==
    \A store \in NearbyNames :
        (store \in DOMAIN response.body.store_matches) <=> (store \notin NeedingAi)

CountersAddUp ==
    response.body.matched_stores + response.body.ai_stores = response.body.total_stores

\* C26: in every per-store batch response matched_stores + ai_stores equals
\* total_stores and every name of nearby_stores is either a key of
\* store_matches or in stores_needing_ai but not both, also for lists with
\* repeated names.
C26_CountersConsistent ==
    BatchAnswered => CountersAddUp /\ NamesPartitioned

\* the names are partitioned in every response, and the counters add up in
\* every response to a list without a matched name that is repeated
CountersConsistentUnlessMatchedNameRepeated ==
    BatchAnswered
        => /\ NamesPartitioned
           /\ response.body.total_stores = Len(request.nearby_stores)
           /\ response.body.matched_stores = Cardinality(DOMAIN response.body.store_matches)
           /\ response.body.ai_stores = Len(response.body.stores_needing_ai)
           /\ (\A i, j \in 1..Len(request.nearby_stores) :
                  (i # j /\ request.nearby_stores[i] = request.nearby_stores[j])
                      => request.nearby_stores[i] \in NeedingAi)
                 => CountersAddUp

\* a response to a list that names a matched store twice
RepeatedMatchedNameReached ==
    /\ BatchAnswered
    /\ Len(request.nearby_stores) = 2
    /\ request.nearby_stores[1] = request.nearby_stores[2]
    /\ request.nearby_stores[1] \in DOMAIN response.body.store_matches
    /\ response.body.matched_stores = 1 /\ response.body.ai_stores = 0
    /\ response.body.total_stores = 2


-----------------------------------------------------------------------------
(* The groups the entries of store_matches come from (SpecStores)          *)

\* product is candidate i of the request: they have the same fields, but for
\* the relevance_score the general-query selector may have set since or before
DrawnFrom(product, i) ==
    /\ DOMAIN product \ {"relevance_score"}
          = DOMAIN request.hasdata_results[i] \ {"relevance_score"}
    /\ \A k \in DOMAIN product \ {"relevance_score"} :
          product[k] = request.hasdata_results[i][k]

\* the candidates of the group of source
GroupOf(source) ==
    {i \in 1..Len(request.hasdata_results) : StoreOf(request.hasdata_results[i]) = source}

\* the entry of nearby_store has a product of the group of a source that
\* matches nearby_store, the one the store is mapped to
FromMatchingGroup(nearby_store) ==
    /\ nearby_store \in NearbyNames
    /\ MappedStore(request.hasdata_results, nearby_store) # None
    /\ match_store_names(Val(MappedStore(request.hasdata_results, nearby_store)),
                         nearby_store)
    /\ \E i \in GroupOf(Val(MappedStore(request.hasdata_results, nearby_store))) :
          DrawnFrom(store_matches[nearby_store].product, i)
    /\ match_store_names(StoreOf(store_matches[nearby_store].product), nearby_store)

\* every product a call of the pass returned is of the group of the pass
OneGroupCompetes(pass) ==
    \A j \in 1..Len(pass.calls) :
        \A returned \in
              IF pass.calls[j].function = "select_by_priority_conditions"
              THEN {pass.calls[j].returned} \ {None}
              ELSE IF ~pass.calls[j].returned.ok THEN {}
              ELSE IF pass.calls[j].function = "find_cheapest_relevant_product"
              THEN {pass.calls[j].returned.value} \ {None}
              ELSE {pass.calls[j].returned.value.selected} \ {None} :
            \E i \in GroupOf(pass.hasdata_store) : DrawnFrom(Val(returned), i)

\* C27: every entry store_matches[n] has n in nearby_stores and a product of
\* the candidate group of a source s with match_store_names(s, n); a product
\* whose source does not match n is never returned for n, and every selection
\* of a pass returns a candidate of the one group of the pass.
C27_EntriesComeFromTheMatchingGroup ==
    pc \in {"stores_loop", "responded"}
        => /\ \A nearby_store \in DOMAIN store_matches : FromMatchingGroup(nearby_store)
           /\ \A j \in 1..Len(call_log) : OneGroupCompetes(call_log[j])

\* two stores have entries from different groups, and the request has a
\* cheaper candidate of the other group than the product of one entry
C27_Witness ==
    /\ BatchAnswered
    /\ \E a, b \in DOMAIN store_matches :
          /\ StoreOf(store_matches[a].product) # StoreOf(store_matches[b].product)
          /\ Priced(store_matches[a].product) /\ Priced(store_matches[b].product)
          /\ PriceOf(store_matches[b].product) < PriceOf(store_matches[a].product)
          /\ FromMatchingGroup(a) /\ FromMatchingGroup(b)


-----------------------------------------------------------------------------
(* When the priority selection returns nothing (SpecStores)                *)

\* the group of the pass has a candidate with a numeric price
GroupPriced(pass) ==
    \E i \in GroupOf(pass.hasdata_store) : Priced(request.hasdata_results[i])

\* the pass called select_best_product or find_cheapest_relevant_product
FallbackReached(calls) ==
    \E j \in 1..Len(calls) : calls[j].function # "select_by_priority_conditions"

\* C28: select_by_priority_conditions returns None only when no component is
\* present or no candidate of the store has a numeric price; whenever a
\* component is present and the store has a numerically priced candidate,
\* the entry of the store is a priority selection and select_best_product is
\* not reached.
C28_PriorityReturnsNoneOnlyWithoutComponentOrPrice ==
    pc \in {"stores_loop", "responded"}
        => \A j \in 1..Len(call_log) :
              /\ (PriorityFirst(call_log[j].calls) /\ call_log[j].calls[1].returned = None)
                    => ~GroupPriced(call_log[j])
              /\ (~Applicable \/ ~GroupPriced(call_log[j]))
                    => ~PriorityPicked(call_log[j].calls)
              /\ (Applicable /\ GroupPriced(call_log[j]))
                    => /\ PriorityPicked(call_log[j].calls)
                       /\ ~FallbackReached(call_log[j].calls)
                       /\ ReasonFor(call_log[j].store) \in PriorityReasons
                       /\ store_matches[call_log[j].store].product
                             = Val(call_log[j].calls[1].returned)

\* a pass whose priority selection returned the cheapest candidate of a group
\* in which no title has a component, and a pass that went on to the scored
\* fallback because its group has no numeric price
C28_Witness ==
    /\ BatchAnswered
    /\ \E j, k \in 1..Len(call_log) :
          /\ PriorityPicked(call_log[j].calls)
          /\ ~MatchesItem(Val(call_log[j].calls[1].returned))
          /\ ~MatchesBrand(Val(call_log[j].calls[1].returned))
          /\ ~MatchesQuantity(Val(call_log[j].calls[1].returned))
          /\ PriorityFirst(call_log[k].calls)
          /\ call_log[k].calls[1].returned = None
          /\ FallbackReached(call_log[k].calls)


-----------------------------------------------------------------------------
(* What a pass of the batch loop does to its inputs (SpecStores)           *)

\* a step of the loop: the pass for nearby_stores[cursor]
PassStep == pc = "stores_loop" /\ cursor' = cursor + 1

\* the calls of the pass of the step, none when the store is not mapped
StepCalls ==
    IF Len(call_log') = Len(call_log) THEN <<>> ELSE call_log'[Len(call_log')].calls

\* candidate i is after the step as it was before it
CandidateKept(i) == request'.hasdata_results[i] = request.hasdata_results[i]

\* candidate i has a relevance > 0 and is after the step as before it but for
\* relevance_score, which is its relevance
CandidateStampedOnly(i) ==
    /\ relevance_score(request.query, request.hasdata_results[i]) > 0
    /\ request'.hasdata_results[i]
          = Stamped(request.hasdata_results[i],
                    relevance_score(request.query, request.hasdata_results[i]))

\* C29: matching leaves its inputs unchanged: a pass leaves the query and
\* every field of every candidate as they were, but for relevance_score,
\* which only a pass that reached the general-query selector sets, and only
\* on candidates whose relevance is > 0; a pass of select_by_priority_conditions
\* and of the scored path of select_best_product alone changes nothing.
C29_InputsUnchangedButForRelevanceScore ==
    [][PassStep
          => /\ request'.query = request.query
             /\ request'.nearby_stores = request.nearby_stores
             /\ Len(request'.hasdata_results) = Len(request.hasdata_results)
             /\ \A i \in 1..Len(request.hasdata_results) :
                   \/ CandidateKept(i)
                   \/ /\ CandidateStampedOnly(i)
                      /\ ReachedGeneralSelector(request.query, StepCalls)]_vars

\* after a pass of the general-query selector a candidate of the store
\* carries its relevance and a dropped one of the same store is as it was
C29_Witness ==
    /\ pc = "stores_loop"
    /\ call_log # <<>>
    /\ \E i, j \in 1..Len(request.hasdata_results) :
          /\ StoreOf(request.hasdata_results[i]) = LastPass.hasdata_store
          /\ StoreOf(request.hasdata_results[j]) = LastPass.hasdata_store
          /\ "relevance_score" \in DOMAIN request.hasdata_results[i]
          /\ relevance_score(request.query, request.hasdata_results[j]) <= 0
          /\ "relevance_score" \notin DOMAIN request.hasdata_results[j]

\* after a pass of the priority selector, and after a pass of the scored path
\* that selected, no candidate carries a relevance_score
UnstampedAfterPriorityAndScoredReached ==
    /\ pc = "stores_loop"
    /\ \E j, k \in 1..Len(call_log) :
          /\ PriorityPicked(call_log[j].calls)
          /\ call_log[k].calls[Len(call_log[k].calls)].function = "select_best_product"
          /\ call_log[k].store \in DOMAIN store_matches
    /\ ~is_general_query(request.query)
    /\ \A i \in 1..Len(request.hasdata_results) :
          "relevance_score" \notin DOMAIN request.hasdata_results[i]


-----------------------------------------------------------------------------
(* A brand and a quantity without an item (SpecStores)                     *)

\* the extractor's answer has a brand and a quantity and no item
BrandAndQuantityOnly == ~Truthy(ItemComp) /\ Truthy(BrandComp) /\ QuantityLiters # None

\* the candidates of the group of the pass
GroupProducts(pass) == {request.hasdata_results[i] : i \in GroupOf(pass.hasdata_store)}

\* returned is a candidate of S, none of S being cheaper
CheapestIn(returned, S) ==
    /\ returned # None
    /\ Val(returned) \in S
    /\ \A m \in S : PriceOf(Val(returned)) <= PriceOf(m)

\* returned is the cheapest priced candidate of tier if there is one, else
\* the cheapest priced candidate of the group, else None
TierThenCheapest(returned, tier, group) ==
    IF \E p \in tier : Priced(p) THEN CheapestIn(returned, {p \in tier : Priced(p)})
    ELSE IF \E p \in group : Priced(p) THEN CheapestIn(returned, {p \in group : Priced(p)})
    ELSE returned = None

QuantityWithoutBrandReached ==
    /\ BatchAnswered
    /\ BrandAndQuantityOnly
    /\ \E a \in DOMAIN store_matches :
          /\ MatchesQuantity(store_matches[a].product)
          /\ ~MatchesBrand(store_matches[a].product)
          /\ store_matches[a].reason = "llm_priority_selection_fourth_case"

\* with a brand and a quantity and no item, a store none of whose candidates
\* has the brand or the quantity has its cheapest candidate as its entry
BrandAndQuantityFallbackReached ==
    /\ BatchAnswered
    /\ BrandAndQuantityOnly
    /\ \E a \in DOMAIN store_matches :
          /\ ~MatchesQuantity(store_matches[a].product)
          /\ ~MatchesBrand(store_matches[a].product)
          /\ store_matches[a].reason = "llm_priority_selection_fourth_case"

====
